---- MODULE Spec2Model ----
(***************************************************************************)
(* Verification model of lornu-ai/automation-hub.                          *)
(*                                                                         *)
(*   Spec        the OIDC hub worker of src/src/oidc-hub.ts: the key       *)
(*               cache, and the discovery, JWKS, mint and health routes,   *)
(*               with requests interleaving at their await points.         *)
(*   SpecConcurrent  the same hub with several requests in flight that     *)
(*               race for the key cache.                                   *)
(*   SpecVerify  verifySignature of src/src/worker.ts as a function of its *)
(*               arguments.                                                *)
(*   SpecWebhook the webhook worker of src/src/worker.ts: fetch,           *)
(*               handlePullRequest and getInstallationToken, one request   *)
(*               at a time (the worker keeps no state between requests).   *)
(*   SpecDiscovery  the edge discovery worker whose source is listed in    *)
(*               src/workers/cloudflare-edge-discovery/docs/DEPLOYMENT.md: *)
(*               fetch, getCachedAgents, queryAzureRegistry, updateCache   *)
(*               and the D1 table agent_cache, under a clock.              *)
(*   SpecAudit   the audit worker listed in src/unnamed/part_002: fetch    *)
(*               and processDeploymentEvent.                               *)
(*   SpecApi     the Vectorize and RAG routes of src/src/worker.ts: fetch, *)
(*               handleVectorizeTrigger, handleRagSearch and               *)
(*               handleVectorizeStatus.                                    *)
(*   SpecChunk   chunkText of src/src/vectorize_indexer.ts, one iteration  *)
(*               of its loop at a time, run to completion.                 *)
(*                                                                         *)
(* Strings the code slices or scans are sequences of characters, so that   *)
(* startsWith and slice are computed, not assumed.  JavaScript values are  *)
(* tagged records, so that truthiness, property access and object spread   *)
(* behave as they do in the language.                                      *)
(***************************************************************************)
EXTENDS Integers, Sequences, FiniteSets, TLC

VARIABLES
    env,               \* oidc-hub Env: the worker's configuration
    runtime,           \* the key representation jose uses in this runtime
    cachedPrivateKey,  \* oidc-hub.ts:25
    cachedKeyId,       \* oidc-hub.ts:26
    task,              \* one record per request slot: position and locals
    resp,              \* the exchange (request, response) being returned
    vcall,             \* verifySignature: the arguments of the call
    vret,              \* verifySignature: what the call came to
    wenv,              \* webhook worker Env
    wreq,              \* webhook worker: the request being handled
    wpc,               \* webhook worker: position of the handler
    wlog,              \* webhook worker: what the handler did, in order
    wres,              \* webhook worker: the response returned
    denv,              \* edge discovery Env
    dclock,            \* edge discovery: the time, in ticks
    dticks,            \* edge discovery: how often the clock has advanced
    dcache,            \* edge discovery: the rows of the D1 table agent_cache
    dreq,              \* edge discovery: the request being handled
    dpc,               \* edge discovery: position of the handler
    dagents,           \* edge discovery: the rows queryAzureRegistry returned
    dres,              \* edge discovery: the response returned
    aenv,              \* audit worker Env
    areq,              \* audit worker: the request being handled
    alog,              \* audit worker: what the handler did, in order
    ares,              \* audit worker: the response returned
    renv,              \* Vectorize/RAG routes: Env
    rreq,              \* Vectorize/RAG routes: the request being handled
    rpc,               \* Vectorize/RAG routes: position of the handler
    rlog,              \* Vectorize/RAG routes: what the handler did, in order
    rres,              \* Vectorize/RAG routes: the response returned
    ctext,             \* chunkText: the argument text, as runs of characters
    csource,           \* chunkText: the argument source
    position,          \* chunkText: vectorize_indexer.ts:53
    chunkIndex,        \* chunkText: vectorize_indexer.ts:54
    cchunks,           \* chunkText: vectorize_indexer.ts:48
    cpc                \* chunkText: position of the function

hubVars == <<env, runtime, cachedPrivateKey, cachedKeyId, task, resp>>
verifyVars == <<vcall, vret>>

webhookVars == <<wenv, wreq, wpc, wlog, wres>>
discoveryVars == <<denv, dclock, dticks, dcache, dreq, dpc, dagents, dres>>
auditVars == <<aenv, areq, alog, ares>>
apiVars == <<renv, rreq, rpc, rlog, rres>>
chunkVars == <<ctext, csource, position, chunkIndex, cchunks, cpc>>

\* What each of the components leaves alone.
outsideHub ==
    <<verifyVars, webhookVars, discoveryVars, auditVars, apiVars, chunkVars>>
outsideVerify ==
    <<hubVars, webhookVars, discoveryVars, auditVars, apiVars, chunkVars>>
outsideWebhook ==
    <<hubVars, verifyVars, discoveryVars, auditVars, apiVars, chunkVars>>
outsideDiscovery ==
    <<hubVars, verifyVars, webhookVars, auditVars, apiVars, chunkVars>>
outsideAudit ==
    <<hubVars, verifyVars, webhookVars, discoveryVars, apiVars, chunkVars>>
outsideApi ==
    <<hubVars, verifyVars, webhookVars, discoveryVars, auditVars, chunkVars>>
outsideChunk ==
    <<hubVars, verifyVars, webhookVars, discoveryVars, auditVars, apiVars>>

vars == <<hubVars, verifyVars, webhookVars, discoveryVars, auditVars, apiVars, chunkVars>>

(***************************************************************************)
(* Bounds of the model.                                                    *)
(***************************************************************************)
MaxReq == 1     \* requests in flight at once
MaxTime == 1    \* latest clock reading (seconds) at which a token is issued
MaxConcurrent == 2  \* requests in flight at once in SpecConcurrent

(***************************************************************************)
(* JavaScript values.                                                      *)
(***************************************************************************)
Undefined == [t |-> "undefined"]
Null == [t |-> "null"]
Str(s) == [t |-> "string", s |-> s]
Arr(a) == [t |-> "array", a |-> a]
Obj(f) == [t |-> "object", o |-> f]
Numeric(n) == [t |-> "number", n |-> n]

\* ToBoolean, as used by !x, x || y and if (x).
Truthy(v) ==
    CASE v.t = "string" -> Len(v.s) > 0
      [] v.t = "number" -> v.n # 0
      [] v.t \in {"array", "object", "key"} -> TRUE
      [] OTHER -> FALSE

\* a || b
OrElse(a, b) == IF Truthy(a) THEN a ELSE b

\* String.prototype.startsWith and String.prototype.slice(n)
StartsWith(s, p) == Len(s) >= Len(p) /\ SubSeq(s, 1, Len(p)) = p
Slice(s, n) == SubSeq(s, n + 1, Len(s))

\* v.k: a TypeError on null and undefined, undefined when v has no own k.
CanGet(v) == v.t \notin {"null", "undefined"}
Get(v, k) ==
    IF v.t = "object" /\ k \in DOMAIN v.o THEN v.o[k] ELSE Undefined

\* v?.k
OptGet(v, k) == IF CanGet(v) THEN Get(v, k) ELSE Undefined

\* { ...v }: the own enumerable properties of v; none for null and
\* undefined; the indices for a string or an array.
Spread(v) ==
    CASE v.t = "object" -> v.o
      [] v.t = "string" -> [i \in {ToString(j - 1) : j \in 1..Len(v.s)} |->
                               Str(<<v.s[CHOOSE j \in 1..Len(v.s) : ToString(j - 1) = i]>>)]
      [] v.t = "array" -> [i \in {ToString(j - 1) : j \in 1..Len(v.a)} |->
                               v.a[CHOOSE j \in 1..Len(v.a) : ToString(j - 1) = i]]
      [] OTHER -> <<>>

(***************************************************************************)
(* Configuration and inputs.                                               *)
(***************************************************************************)
Bearer == <<"B", "e", "a", "r", "e", "r", " ">>
KeyGood == <<"k", "1">>
KeyWrong == <<"k", "2">>
SvcA == <<"s", "v", "c", "-", "a">>
SvcB == <<"s", "v", "c", "-", "b">>
AudDefault == <<"a", "u", "d", "0">>
KidConfigured == <<"k", "i", "d", "1">>
Exp15m == <<"1", "5", "m">>
Exp1h == <<"1", "h">>
ExpSoon == <<"s", "o", "o", "n">>    \* no duration: setExpirationTime throws
Issuer == "https://oidc-hub.dockworker.ai"

\* PRIVATE_KEY is a PKCS#8 PEM of an RSA key, or text that is no key.
PemRsaA == "pkcs8-rsa-A"
PemGarbage == "not-a-pem"

Envs ==
    [ PRIVATE_KEY      : {PemRsaA, PemGarbage},
      ISSUER_URL       : {Issuer},
      ALLOWED_AUDIENCE : {Undefined, Str(AudDefault)},
      MINT_API_KEY     : {Undefined, Str(<<>>), Str(KeyGood)},
      KEY_ID           : {Undefined, Str(KidConfigured)},
      TOKEN_EXPIRATION : {Undefined, Str(Exp1h), Str(ExpSoon)} ]

\* jose represents an imported key as a non-extractable CryptoKey on Web
\* Crypto runtimes (workerd, browsers) and as a KeyObject on Node.
Runtimes == {"webcrypto", "node"}

\* Values of request.headers.get('Authorization').
AuthHeaders ==
    { Null,
      Str(Bearer \o KeyGood),
      Str(Bearer \o KeyWrong),
      Str(<<"B", "a", "s", "i", "c", " ">> \o KeyGood),
      Str(<<"b", "e", "a", "r", "e", "r", " ">> \o KeyGood),
      Str(KeyGood) }

\* Request bodies: text that is not JSON, or the JSON value it parses to.
InvalidJson == [json |-> FALSE]
Json(v) == [json |-> TRUE, v |-> v]
NoBody == [json |-> FALSE, none |-> TRUE]

ClaimsRole == Obj([role |-> Str(<<"a", "d", "m", "i", "n">>)])
ClaimsSub ==
    Obj([ sub |-> Str(<<"e", "v", "i", "l">>), aud |-> Str(<<"e", "v", "i", "l">>),
          iss |-> Str(<<"e", "v", "i", "l">>), iat |-> Numeric(5), exp |-> Numeric(99999),
          email |-> Str(<<"a", "@", "b">>) ])

Bodies ==
    { InvalidJson,
      Json(Null),
      Json(Obj(<<>>)),
      Json(Obj([audience |-> Str(SvcB)])),
      Json(Obj([subject |-> Str(<<>>), audience |-> Str(SvcB)])),
      Json(Obj([subject |-> Arr(<<>>), audience |-> Str(SvcB)])),
      Json(Obj([subject |-> Str(SvcA)])),
      Json(Obj([subject |-> Str(SvcA), audience |-> Str(<<>>)])),
      Json(Obj([subject |-> Str(SvcA), audience |-> Arr(<<>>)])),
      Json(Obj([subject |-> Str(SvcA), audience |-> Str(SvcB)])),
      Json(Obj([subject |-> Str(SvcA), audience |-> Str(SvcB), expiration |-> Str(Exp1h)])),
      Json(Obj([subject |-> Str(SvcA), audience |-> Str(SvcB), claims |-> ClaimsRole])),
      Json(Obj([subject |-> Str(SvcA), claims |-> ClaimsSub])) }

PathDiscovery == "/.well-known/openid-configuration"
PathJwks == "/.well-known/jwks.json"
PathMint == "/mint"
Paths == {PathDiscovery, PathJwks, PathMint, "/health", "/", "/other"}
Methods == {"GET", "POST"}

Requests ==
    { [path |-> p, method |-> m, auth |-> a, body |-> b] :
        p \in Paths, m \in Methods, a \in AuthHeaders, b \in Bodies \cup {NoBody} }

\* Only /mint reads the Authorization header and the body: the other routes
\* are exercised with one header and no body.
HubRequests ==
    { q \in Requests :
        IF q.path = PathMint /\ q.method = "POST"
        THEN q.body # NoBody
        ELSE q.auth = Null /\ q.body = NoBody }

\* The fetch invocations that may be in flight together.
Slots == DOMAIN task

(***************************************************************************)
(* The jose library, as the hub uses it.                                   *)
(***************************************************************************)
\* jose.importPKCS8(pem, 'RS256'): the key object, or a throw when the text
\* is no PKCS#8 key.
ImportThrows(pem) == pem # PemRsaA
ImportPKCS8(pem) == [t |-> "key", type |-> "private", pem |-> pem]

\* The messages of the exceptions the handlers can meet.
ImportError(pem) == "importPKCS8: not a PKCS#8 key: " \o pem
ExportError == "exportJWK: non-extractable CryptoKey cannot be exported"
SecsError == "setExpirationTime: Invalid time period format"
NullBodyError == "TypeError: Cannot read properties of null (reading 'subject')"

\* The members of an RSA JWK that only the private key has.
PrivateMembers == {"d", "p", "q", "dp", "dq", "qi"}

\* jose.exportJWK(key): every component of the key it is given.  importPKCS8
\* is called without { extractable: true }, so on Web Crypto runtimes the key
\* cannot be exported at all and exportJWK throws.
ExportThrows(key, rt) == rt = "webcrypto"
ExportJWK(key) ==
    [kty |-> "RSA", n |-> "n:" \o key.pem, e |-> "AQAB"]
    @@ (IF key.type = "private"
        THEN [m \in PrivateMembers |-> m \o ":" \o key.pem]
        ELSE <<>>)

\* A variant of the thumbprint that does not depend on the key: every key
\* gets the identifier of one fixed key.
CalculateJwkThumbprintOfOtherKey(jwk) == Str(<<"sha256", jwk.e, jwk.kty, "n:pkcs8-rsa-B">>)

\* jose.calculateJwkThumbprint(jwk, 'sha256') of an RSA key: a digest of its
\* members e, kty and n.
CalculateJwkThumbprint(jwk) == Str(<<"sha256", jwk.e, jwk.kty, jwk.n>>)

\* jose's secs(): a number followed by a unit; a TypeError otherwise.
Digits == <<"0", "1", "2", "3", "4", "5", "6", "7", "8", "9">>
IsDigit(c) == \E i \in 1..10 : Digits[i] = c
DigitValue(c) == (CHOOSE i \in 1..10 : Digits[i] = c) - 1
RECURSIVE Number(_)
Number(s) ==
    IF s = <<>> THEN 0
    ELSE 10 * Number(SubSeq(s, 1, Len(s) - 1)) + DigitValue(s[Len(s)])
UnitSeconds(u) ==
    CASE u = "s" -> 1 [] u = "m" -> 60 [] u = "h" -> 3600 [] u = "d" -> 86400
SecsThrows(v) ==
    \/ v.t # "string"
    \/ Len(v.s) < 2
    \/ v.s[Len(v.s)] \notin {"s", "m", "h", "d"}
    \/ \E i \in 1..(Len(v.s) - 1) : ~IsDigit(v.s[i])
Secs(v) == Number(SubSeq(v.s, 1, Len(v.s) - 1)) * UnitSeconds(v.s[Len(v.s)])

\* The clock, in seconds: new Date() is read once by setIssuedAt and once
\* more by setExpirationTime, and the second may change in between.
Times == 0..MaxTime
Skews == {0, 1}

\* A variant of SignJWT in which the caller's claims are applied last and
\* override the claims the setters wrote.
SignJWTClaimsLast(customClaims, keyId, iat, issuer, audience, subject, exp) ==
    [ header  |-> [alg |-> "RS256", kid |-> keyId],
      payload |-> customClaims @@ [iat |-> iat, iss |-> issuer, aud |-> audience,
                                   sub |-> subject, exp |-> exp] ]

\* new SignJWT(customClaims).setProtectedHeader(..).setIssuedAt()
\*   .setIssuer(..).setAudience(..).setSubject(..).setExpirationTime(..):
\* each setter overwrites its claim in the payload.
SignJWT(customClaims, keyId, iat, issuer, audience, subject, exp) ==
    [ header  |-> [alg |-> "RS256", kid |-> keyId],
      payload |-> [iat |-> iat, iss |-> issuer, aud |-> audience,
                   sub |-> subject, exp |-> exp] @@ customClaims ]

\* .sign(privateKey)
Sign(jwt, key) == jwt @@ [signedWith |-> key.pem]

(***************************************************************************)
(* Responses.                                                              *)
(***************************************************************************)
JsonResponse(status, body) ==
    [status |-> status, ctype |-> "application/json", body |-> body]
TextResponse(status, text) ==
    [status |-> status, ctype |-> "text/plain", body |-> text]
ErrorResponse(status, msg) == JsonResponse(status, [error |-> msg])

DiscoveryResponse ==
    JsonResponse(200,
        [ issuer |-> env.ISSUER_URL,
          jwks_uri |-> env.ISSUER_URL \o "/.well-known/jwks.json",
          response_types_supported |-> <<"id_token">>,
          subject_types_supported |-> <<"public">>,
          id_token_signing_alg_values_supported |-> <<"RS256">>,
          claims_supported |-> <<"sub", "iss", "aud", "exp", "iat", "email", "roles">> ])

HealthResponse ==
    JsonResponse(200,
        [ status |-> "operational", service |-> "oidc-hub", issuer |-> env.ISSUER_URL,
          endpoints |-> [discovery |-> PathDiscovery, jwks |-> PathJwks, mint |-> PathMint] ])

\* A variant of JwksResponse that publishes the thumbprint of the key as its
\* kid, whatever getKeyId returned.
JwksResponseThumbprintKid(jwk, keyId) ==
    JsonResponse(200,
        [keys |-> <<[kid |-> CalculateJwkThumbprint(jwk), use |-> "sig", alg |-> "RS256"] @@ jwk>>])

JwksResponse(jwk, keyId) ==
    JsonResponse(200, [keys |-> <<[kid |-> keyId, use |-> "sig", alg |-> "RS256"] @@ jwk>>])

MintResponse(jwt, expiration) ==
    JsonResponse(200, [id_token |-> jwt, token_type |-> "Bearer", expires_in |-> expiration])

\* A variant of the catch blocks that reports the message of the exception.
CatchResponseWithDetail(q, error) ==
    IF q.path = PathJwks
    THEN JsonResponse(500, [error |-> "Failed to generate JWKS", details |-> error])
    ELSE JsonResponse(500, [error |-> "Token minting failed", details |-> error])

\* The catch blocks of the JWKS and the mint route: `catch {` binds no
\* exception, the body of the response is fixed.
CatchResponse(q, error) ==
    IF q.path = PathJwks
    THEN ErrorResponse(500, "Failed to generate JWKS")
    ELSE ErrorResponse(500, "Token minting failed")

(***************************************************************************)
(* State of a request slot.                                                *)
(***************************************************************************)
NoReq == [none |-> TRUE]
NoResp == [none |-> TRUE]
IdleTask ==
    [pc |-> "idle", req |-> NoReq, privateKey |-> Null, kidKey |-> Null,
     keyId |-> Null]

\* verifySignature is not running.
NotCalled == [result |-> "none"]
VerifyAtRest ==
    /\ vcall = NotCalled
    /\ vret = NotCalled

\* The webhook worker is not running.
WebhookAtRest ==
    /\ wenv = NoReq
    /\ wreq = NoReq
    /\ wpc = "idle"
    /\ wlog = <<>>
    /\ wres = NoResp

\* The edge discovery worker is not running.
DiscoveryAtRest ==
    /\ denv = NoReq
    /\ dclock = 0
    /\ dticks = 0
    /\ dcache = <<>>
    /\ dreq = NoReq
    /\ dpc = "idle"
    /\ dagents = <<>>
    /\ dres = NoResp

\* The audit worker is not running.
AuditAtRest ==
    /\ aenv = NoReq
    /\ areq = NoReq
    /\ alog = <<>>
    /\ ares = NoResp

\* The Vectorize and RAG routes are not running.
ApiAtRest ==
    /\ renv = NoReq
    /\ rreq = NoReq
    /\ rpc = "idle"
    /\ rlog = <<>>
    /\ rres = NoResp

\* chunkText is not running.
ChunkAtRest ==
    /\ ctext = <<>>
    /\ csource = <<>>
    /\ position = 0
    /\ chunkIndex = 0
    /\ cchunks = <<>>
    /\ cpc = "idle"

\* The components other than the one a specification is about.
OthersAtRest == DiscoveryAtRest /\ AuditAtRest /\ ApiAtRest /\ ChunkAtRest

Init ==
    /\ OthersAtRest
    /\ env \in Envs
    /\ runtime \in Runtimes
    /\ cachedPrivateKey = Null
    /\ cachedKeyId = Null
    /\ task = [r \in 1..MaxReq |-> IdleTask]
    /\ resp = NoResp
    /\ VerifyAtRest
    /\ WebhookAtRest

\* return new Response(..) / return Response.json(..): the exchange goes to
\* the transport and the slot is free again.
Respond(r, q, res, signed) ==
    /\ resp = NoResp
    /\ resp' = [req |-> q, res |-> res, signed |-> signed]
    /\ task' = [task EXCEPT ![r] = IdleTask]

\* The transport sends the response.
Deliver ==
    /\ resp # NoResp
    /\ UNCHANGED outsideHub
    /\ resp' = NoResp
    /\ UNCHANGED <<env, runtime, cachedPrivateKey, cachedKeyId, task>>

(***************************************************************************)
(* getPrivateKey and getKeyId (oidc-hub.ts:28-47).                         *)
(***************************************************************************)
\* A variant of getPrivateKey that imports the key on every call.
CallGetPrivateKeyNoCache(r, q, field, ret, imp) ==
    task' = [task EXCEPT ![r].pc = imp, ![r].req = q]

\* getPrivateKey up to its await: the cached key when there is one, and
\* otherwise importPKCS8 is started.  `ret` is the position of the caller's
\* continuation and `imp` the position that awaits the import.
CallGetPrivateKey(r, q, field, ret, imp) ==
    IF Truthy(cachedPrivateKey)
    THEN task' = [task EXCEPT ![r].pc = ret, ![r].req = q,
                              ![r][field] = cachedPrivateKey]
    ELSE task' = [task EXCEPT ![r].pc = imp, ![r].req = q]

\* Where the handler goes on once getKeyId has returned: exportJWK in the
\* JWKS route, request.json() in the mint route.
AfterKeyId(q) == IF q.path = PathJwks THEN "jwks_export" ELSE "mint_body"

\* A variant of getPrivateKey that stores the promise of importPKCS8 instead
\* of the key it resolves to: a rejected import stays in the cache.
ImportDoneCachingPromise(r) ==
    /\ task[r].pc \in {"key_import", "kid_import"}
    /\ UNCHANGED outsideHub
    /\ UNCHANGED <<env, runtime, cachedKeyId>>
    /\ IF ImportThrows(env.PRIVATE_KEY)
       THEN /\ Respond(r, task[r].req,
                       CatchResponse(task[r].req, ImportError(env.PRIVATE_KEY)), FALSE)
            /\ cachedPrivateKey' = Obj([rejected |-> ImportError(env.PRIVATE_KEY)])
       ELSE /\ cachedPrivateKey' = ImportPKCS8(env.PRIVATE_KEY)
            /\ task' = IF task[r].pc = "key_import"
                       THEN [task EXCEPT ![r].pc = "key_ret",
                                         ![r].privateKey = cachedPrivateKey']
                       ELSE [task EXCEPT ![r].pc = "kid_derive",
                                         ![r].kidKey = cachedPrivateKey']
            /\ UNCHANGED resp

\* cachedPrivateKey = await jose.importPKCS8(..); return cachedPrivateKey
\* in getPrivateKey called by the handler (key_import) or by getKeyId
\* (kid_import); a throw reaches the handler's catch.
ImportDone(r) ==
    /\ task[r].pc \in {"key_import", "kid_import"}
    /\ UNCHANGED outsideHub
    /\ UNCHANGED <<env, runtime, cachedKeyId>>
    /\ IF ImportThrows(env.PRIVATE_KEY)
       THEN /\ Respond(r, task[r].req,
                       CatchResponse(task[r].req, ImportError(env.PRIVATE_KEY)), FALSE)
            /\ UNCHANGED cachedPrivateKey
       ELSE /\ cachedPrivateKey' = ImportPKCS8(env.PRIVATE_KEY)
            /\ task' = IF task[r].pc = "key_import"
                       THEN [task EXCEPT ![r].pc = "key_ret",
                                         ![r].privateKey = cachedPrivateKey']
                       ELSE [task EXCEPT ![r].pc = "kid_derive",
                                         ![r].kidKey = cachedPrivateKey']
            /\ UNCHANGED resp

\* const keyId = await getKeyId(env), up to getKeyId's first await.
CallGetKeyId(r) ==
    /\ task[r].pc = "key_ret"
    /\ UNCHANGED outsideHub
    /\ UNCHANGED <<env, runtime, cachedPrivateKey, resp>>
    /\ IF Truthy(cachedKeyId)
       THEN /\ task' = [task EXCEPT ![r].pc = AfterKeyId(task[r].req),
                                    ![r].keyId = cachedKeyId]
            /\ UNCHANGED cachedKeyId
       ELSE IF Truthy(env.KEY_ID)
       THEN /\ cachedKeyId' = env.KEY_ID
            /\ task' = [task EXCEPT ![r].pc = AfterKeyId(task[r].req),
                                    ![r].keyId = cachedKeyId']
       ELSE /\ CallGetPrivateKey(r, task[r].req, "kidKey", "kid_derive", "kid_import")
            /\ UNCHANGED cachedKeyId

\* const jwk = await jose.exportJWK(privateKey);
\* cachedKeyId = await jose.calculateJwkThumbprint(jwk, 'sha256')
DeriveKeyId(r) ==
    /\ task[r].pc = "kid_derive"
    /\ UNCHANGED outsideHub
    /\ UNCHANGED <<env, runtime, cachedPrivateKey>>
    /\ IF ExportThrows(task[r].kidKey, runtime)
       THEN /\ Respond(r, task[r].req, CatchResponse(task[r].req, ExportError), FALSE)
            /\ UNCHANGED cachedKeyId
       ELSE /\ cachedKeyId' = CalculateJwkThumbprint(ExportJWK(task[r].kidKey))
            /\ task' = [task EXCEPT ![r].pc = AfterKeyId(task[r].req),
                                    ![r].keyId = cachedKeyId']
            /\ UNCHANGED resp

(***************************************************************************)
(* fetch (oidc-hub.ts:50-181).                                             *)
(***************************************************************************)
\* 1. OIDC Discovery Endpoint
Discovery(r) ==
    /\ task[r].pc = "idle"
    /\ UNCHANGED outsideHub
    /\ \E q \in HubRequests :
         /\ q.path = PathDiscovery
         /\ Respond(r, q, DiscoveryResponse, FALSE)
    /\ UNCHANGED <<env, runtime, cachedPrivateKey, cachedKeyId>>

\* 2. JWKS Endpoint: const privateKey = await getPrivateKey(env)
JwksStart(r) ==
    /\ task[r].pc = "idle"
    /\ UNCHANGED outsideHub
    /\ \E q \in HubRequests :
         /\ q.path = PathJwks
         /\ CallGetPrivateKey(r, q, "privateKey", "key_ret", "key_import")
    /\ UNCHANGED <<env, runtime, cachedPrivateKey, cachedKeyId, resp>>

\* const jwk = await jose.exportJWK(privateKey); return Response.json(..)
JwksExport(r) ==
    /\ task[r].pc = "jwks_export"
    /\ UNCHANGED outsideHub
    /\ Respond(r, task[r].req,
               IF ExportThrows(task[r].privateKey, runtime)
               THEN CatchResponse(task[r].req, ExportError)
               ELSE JwksResponse(ExportJWK(task[r].privateKey), task[r].keyId),
               FALSE)
    /\ UNCHANGED <<env, runtime, cachedPrivateKey, cachedKeyId>>

\* Variants of MintGate, used to check that the properties below depend on
\* it: one without the check that MINT_API_KEY is configured, one that
\* accepts every Bearer token.
MintGateNoConfigCheck(mintApiKey, authHeader) ==
    LET apiKey == IF authHeader.t = "string" /\ StartsWith(authHeader.s, Bearer)
                  THEN Str(Slice(authHeader.s, 7)) ELSE Null
    IN  IF ~Truthy(apiKey) \/ apiKey # mintApiKey THEN 401 ELSE 0

MintGatePrefixOnly(mintApiKey, authHeader) ==
    LET apiKey == IF authHeader.t = "string" /\ StartsWith(authHeader.s, Bearer)
                  THEN Str(Slice(authHeader.s, 7)) ELSE Null
    IN  IF ~Truthy(mintApiKey) THEN 503
        ELSE IF ~Truthy(apiKey) THEN 401
        ELSE 0

\* 3. Token Minting: the checks on MINT_API_KEY and the Authorization
\* header.  The answer is the status of the rejection, or 0 to go on.
MintGate(mintApiKey, authHeader) ==
    LET apiKey == IF authHeader.t = "string" /\ StartsWith(authHeader.s, Bearer)
                  THEN Str(Slice(authHeader.s, 7)) ELSE Null
    IN  IF ~Truthy(mintApiKey) THEN 503
        ELSE IF ~Truthy(apiKey) \/ apiKey # mintApiKey THEN 401
        ELSE 0

MintGateResponse(status) ==
    IF status = 503
    THEN ErrorResponse(503, "Service not configured: MINT_API_KEY required")
    ELSE ErrorResponse(401, "Unauthorized: Invalid or missing API key")

\* The body of an admitted request is read later, by request.json().
MintStart(r) ==
    /\ task[r].pc = "idle"
    /\ UNCHANGED outsideHub
    /\ \E q \in HubRequests :
         /\ q.path = PathMint /\ q.method = "POST"
         /\ LET gate == MintGate(env.MINT_API_KEY, q.auth)
            IN  IF gate # 0
                THEN Respond(r, q, MintGateResponse(gate), FALSE)
                ELSE /\ CallGetPrivateKey(r, [q EXCEPT !.body = NoBody],
                                          "privateKey", "key_ret", "key_import")
                     /\ UNCHANGED resp
    /\ UNCHANGED <<env, runtime, cachedPrivateKey, cachedKeyId>>

\* A variant of CustomClaims that merges the caller's claims into a default
\* claim set, as the permissive revision of the endpoint did.
CustomClaimsWithDefaults(requestBody) ==
    Spread(Get(requestBody, "claims")) @@ [roles |-> Str(<<"a", "d", "m", "i", "n">>)]

\* const customClaims = { ...requestBody.claims }
CustomClaims(requestBody) == Spread(Get(requestBody, "claims"))

\* const expiration = env.TOKEN_EXPIRATION || '15m'
ResolveExpiration(e) == OrElse(e.TOKEN_EXPIRATION, Str(Exp15m))

\* const audience = requestBody.audience || env.ALLOWED_AUDIENCE
ResolveAudience(requestBody, e) == OrElse(Get(requestBody, "audience"), e.ALLOWED_AUDIENCE)

\* requestBody = await request.json(), the validation of the body, the
\* SignJWT builder chain and sign().  Nothing after request.json() reads or
\* writes the key cache, so the rest of the handler is one step.
MintBody(r) ==
    /\ task[r].pc = "mint_body"
    /\ UNCHANGED outsideHub
    /\ UNCHANGED <<env, runtime, cachedPrivateKey, cachedKeyId>>
    /\ \E b \in Bodies :
         LET q == [task[r].req EXCEPT !.body = b]
         IN  IF ~b.json
             THEN Respond(r, q, ErrorResponse(400, "Invalid request body: Expected JSON"), FALSE)
             ELSE IF ~CanGet(b.v)
             THEN Respond(r, q, CatchResponse(q, NullBodyError), FALSE)
             ELSE IF ~Truthy(Get(b.v, "subject"))
             THEN Respond(r, q, ErrorResponse(400, "Missing required field: subject"), FALSE)
             ELSE IF ~Truthy(ResolveAudience(b.v, env))
             THEN Respond(r, q,
                          ErrorResponse(400, "Missing required field: audience (or set ALLOWED_AUDIENCE)"),
                          FALSE)
             ELSE IF SecsThrows(ResolveExpiration(env))
             THEN Respond(r, q, CatchResponse(q, SecsError), FALSE)
             ELSE \E iat \in Times, skew \in Skews :
                      Respond(r, q,
                          MintResponse(
                              Sign(SignJWT(CustomClaims(b.v), task[r].keyId, iat,
                                           env.ISSUER_URL, ResolveAudience(b.v, env),
                                           Get(b.v, "subject"),
                                           iat + skew + Secs(ResolveExpiration(env))),
                                   task[r].privateKey),
                              ResolveExpiration(env)),
                          TRUE)

\* Health check endpoint, and 404 for everything else.
HealthOrNotFound(r) ==
    /\ task[r].pc = "idle"
    /\ UNCHANGED outsideHub
    /\ \E q \in HubRequests :
         /\ q.path \notin {PathDiscovery, PathJwks}
         /\ ~(q.path = PathMint /\ q.method = "POST")
         /\ Respond(r, q,
                    IF q.path \in {"/health", "/"}
                    THEN HealthResponse
                    ELSE TextResponse(404, "Not Found"),
                    FALSE)
    /\ UNCHANGED <<env, runtime, cachedPrivateKey, cachedKeyId>>

Next ==
    \/ Deliver
    \/ \E r \in Slots :
         \/ Discovery(r)
         \/ JwksStart(r)
         \/ JwksExport(r)
         \/ MintStart(r)
         \/ MintBody(r)
         \/ HealthOrNotFound(r)
         \/ ImportDone(r)
         \/ CallGetKeyId(r)
         \/ DeriveKeyId(r)

Spec == Init /\ [][Next]_hubVars

\* The hub with several requests in flight, in a deployment that is fully
\* configured with a key that imports: the requests race for the key cache.
ConcurrentEnvs ==
    { e \in Envs :
        /\ e.PRIVATE_KEY = PemRsaA
        /\ e.MINT_API_KEY = Str(KeyGood)
        /\ e.ALLOWED_AUDIENCE = Str(AudDefault)
        /\ e.TOKEN_EXPIRATION = Undefined }

InitConcurrent ==
    /\ OthersAtRest
    /\ env \in ConcurrentEnvs
    /\ runtime \in Runtimes
    /\ cachedPrivateKey = Null
    /\ cachedKeyId = Null
    /\ task = [r \in 1..MaxConcurrent |-> IdleTask]
    /\ resp = NoResp
    /\ VerifyAtRest
    /\ WebhookAtRest

SpecConcurrent == InitConcurrent /\ [][Next]_hubVars

(***************************************************************************)
(* verifySignature (worker.ts:119-152).  A string is the sequence of its   *)
(* code units.                                                             *)
(***************************************************************************)
Sha256Prefix == <<115, 104, 97, 50, 53, 54, 61>>    \* "sha256="
PrefixLength == 7
HexLength == 64
DigestLength == 32

\* crypto.subtle.sign("HMAC", key, dataBytes): HMAC-SHA256 stands for a fixed
\* function from (body, secret) to 32 bytes.  The digests of the model are
\* pairwise different and hold a zero byte, a byte below 0x10 and a byte
\* with hex letters, as most digests do.
Shh == <<"s", "h", "h">>
Hush == <<"h", "u", "s", "h">>
BodyTexts ==
    << "{\"a\":1}", "{\"a\":2}", "not json", "null",
       "{\"action\":\"opened\",..pr 7, repo, installation 42}",
       "{\"action\":\"synchronize\",..pr 7, repo, installation 42}",
       "{\"action\":\"closed\",..pr 7, repo, installation 42}",
       "{\"action\":\"opened\",..pr 7, repo}" >>
HmacSeed(body, secret) ==
    (CHOOSE i \in 1..Len(BodyTexts) : BodyTexts[i] = body) + (IF secret = Shh THEN 0 ELSE 8)
HmacSha256(body, secret) ==
    [i \in 1..DigestLength |->
        CASE i = 1 -> 10
          [] i = 2 -> 0
          [] i = 3 -> 171
          [] OTHER -> ((HmacSeed(body, secret) * 31) + (i * 37)) % 256]

\* Bitwise operations on bytes.
RECURSIVE BitXor(_, _)
BitXor(a, b) ==
    IF a = 0 /\ b = 0 THEN 0
    ELSE (((a % 2) + (b % 2)) % 2) + 2 * BitXor(a \div 2, b \div 2)
RECURSIVE BitOr(_, _)
BitOr(a, b) ==
    IF a = 0 /\ b = 0 THEN 0
    ELSE (IF a % 2 = 1 \/ b % 2 = 1 THEN 1 ELSE 0) + 2 * BitOr(a \div 2, b \div 2)

\* Line terminators, which `.` does not match, and the white space that
\* parseInt skips.
IsLineTerminator(c) == c \in {10, 13, 8232, 8233}
IsWhiteSpace(c) ==
    c \in {9, 10, 11, 12, 13, 32, 160, 5760, 8232, 8233, 8239, 8287, 12288, 65279}
          \cup (8192..8202)

\* providedHex.match(/.{1,2}/g): the greedy chunks of one or two characters
\* that are no line terminators; <<>> stands for null (no match).
RECURSIVE MatchChunks(_)
MatchChunks(s) ==
    IF s = <<>> THEN <<>>
    ELSE IF IsLineTerminator(s[1]) THEN MatchChunks(Tail(s))
    ELSE IF Len(s) >= 2 /\ ~IsLineTerminator(s[2])
         THEN <<SubSeq(s, 1, 2)>> \o MatchChunks(SubSeq(s, 3, Len(s)))
         ELSE <<SubSeq(s, 1, 1)>> \o MatchChunks(Tail(s))

\* parseInt(chunk, 16): leading white space is skipped, a sign is read, a
\* 0x prefix is dropped, and the longest prefix of hex digits is the value;
\* NaN when there is none.
NaN == [nan |-> TRUE]
Num(n) == [nan |-> FALSE, n |-> n]
HexValue(c) ==
    CASE c \in 48..57 -> c - 48
      [] c \in 65..70 -> c - 55
      [] c \in 97..102 -> c - 87
      [] OTHER -> -1
RECURSIVE SkipWhiteSpace(_)
SkipWhiteSpace(s) ==
    IF s # <<>> /\ IsWhiteSpace(s[1]) THEN SkipWhiteSpace(Tail(s)) ELSE s
RECURSIVE HexPrefix(_)
HexPrefix(s) ==
    IF s # <<>> /\ HexValue(s[1]) >= 0 THEN <<s[1]>> \o HexPrefix(Tail(s)) ELSE <<>>
RECURSIVE HexNumber(_)
HexNumber(s) ==
    IF s = <<>> THEN 0
    ELSE 16 * HexNumber(SubSeq(s, 1, Len(s) - 1)) + HexValue(s[Len(s)])
ParseInt16(chunk) ==
    LET s1 == SkipWhiteSpace(chunk)
        negative == s1 # <<>> /\ s1[1] = 45
        s2 == IF s1 # <<>> /\ s1[1] \in {43, 45} THEN Tail(s1) ELSE s1
        s3 == IF Len(s2) >= 2 /\ s2[1] = 48 /\ s2[2] \in {88, 120}
              THEN SubSeq(s2, 3, Len(s2)) ELSE s2
        digits == HexPrefix(s3)
    IN  IF digits = <<>> THEN NaN
        ELSE Num(IF negative THEN 0 - HexNumber(digits) ELSE HexNumber(digits))

\* new Uint8Array([..]): ToUint8 of each element, NaN becoming 0.
ToUint8(x) == IF x.nan THEN 0 ELSE x.n % 256

\* A variant of the comparison that stops at the first pair of bytes that
\* differ.
RECURSIVE CompareLoopEarlyExit(_, _, _, _)
CompareLoopEarlyExit(a, b, i, result) ==
    IF i > Len(a) THEN [result |-> result, iterations |-> i - 1]
    ELSE IF a[i] # b[i] THEN [result |-> 1, iterations |-> i]
    ELSE CompareLoopEarlyExit(a, b, i + 1, result)

\* for (let i = 0; i < a.length; i++) result |= a[i] ^ b[i]
RECURSIVE CompareLoop(_, _, _, _)
CompareLoop(a, b, i, result) ==
    IF i > Len(a) THEN [result |-> result, iterations |-> i - 1]
    ELSE CompareLoop(a, b, i + 1, BitOr(result, BitXor(a[i], b[i])))

\* What a call comes to: "true", "false" or "throw"; whether the HMAC was
\* computed; how many byte pairs the loop compared.
Return(result, hmac, iterations) ==
    [result |-> result, hmac |-> hmac, iterations |-> iterations]

VerifySignature(body, signature, secret) ==
    IF signature = <<>> \/ ~StartsWith(signature, Sha256Prefix)
    THEN Return("false", FALSE, 0)
    ELSE
    LET signatureBuffer == HmacSha256(body, secret)
        providedHex == Slice(signature, PrefixLength)
        chunks == MatchChunks(providedHex)
        providedBytes == [i \in 1..Len(chunks) |-> ToUint8(ParseInt16(chunks[i]))]
        loop == CompareLoop(signatureBuffer, providedBytes, 1, 0)
    IN  IF Len(providedHex) # HexLength THEN Return("false", TRUE, 0)
        ELSE IF chunks = <<>> THEN Return("throw", TRUE, 0)
        ELSE IF Len(signatureBuffer) # Len(providedBytes) THEN Return("false", TRUE, 0)
        ELSE Return(IF loop.result = 0 THEN "true" ELSE "false", TRUE, loop.iterations)

(***************************************************************************)
(* The arguments verifySignature is called with.                           *)
(***************************************************************************)
VBodies == {"{\"a\":1}", "{\"a\":2}"}
VSecrets == {Shh, Hush}

\* 'sha256=' followed by the lower-case hex digits of the digest: the
\* signature GitHub sends.
HexChar(n) == IF n < 10 THEN 48 + n ELSE 87 + n
Hex(bytes) ==
    [j \in 1..(2 * Len(bytes)) |->
        IF j % 2 = 1
        THEN HexChar(bytes[(j + 1) \div 2] \div 16)
        ELSE HexChar(bytes[(j + 1) \div 2] % 16)]
ValidSignature(body, secret) == Sha256Prefix \o Hex(HmacSha256(body, secret))

\* One bit of one character flipped; one character replaced.
FlipBit(c, k) == IF (c \div (2 ^ k)) % 2 = 1 THEN c - 2 ^ k ELSE c + 2 ^ k
FlipAt(s, i, k) == [s EXCEPT ![i] = FlipBit(s[i], k)]
ReplaceAt(s, i, c) == [s EXCEPT ![i] = c]
SingleBitFlips(s) == {FlipAt(s, i, k) : i \in 1..Len(s), k \in 0..7}

\* space, line feed, '+', '-', 'g', 'x', 'F'
OddChars == {32, 10, 43, 45, 103, 120, 70}
UpperCase(s) == [i \in 1..Len(s) |-> IF s[i] \in 97..102 THEN s[i] - 32 ELSE s[i]]

Claimed(body, secret) ==
    LET valid == ValidSignature(body, secret)
    IN  {ValidSignature(b, k) : b \in VBodies, k \in VSecrets}
        \cup SingleBitFlips(valid)
        \cup {ReplaceAt(valid, i, c) : i \in (PrefixLength + 1)..Len(valid), c \in OddChars}
        \cup { <<>>,
               Sha256Prefix,
               Slice(valid, PrefixLength),
               SubSeq(valid, 1, Len(valid) - 1),
               valid \o <<48>>,
               Sha256Prefix \o UpperCase(Slice(valid, PrefixLength)),
               Sha256Prefix \o [i \in 1..HexLength |-> 10],
               Sha256Prefix \o [i \in 1..HexLength |-> 103],
               Sha256Prefix \o <<10>> \o SubSeq(valid, PrefixLength + 1, Len(valid) - 1),
               Sha256Prefix \o <<10, 10>> \o SubSeq(valid, PrefixLength + 3, Len(valid)) }

VerifyCalls ==
    { [body |-> b, signature |-> g, secret |-> k] :
        b \in VBodies, k \in VSecrets, g \in UNION {Claimed(b2, k2) : b2 \in VBodies, k2 \in VSecrets} }

HubAtRest ==
    /\ env = CHOOSE e \in Envs : TRUE
    /\ runtime = "webcrypto"
    /\ cachedPrivateKey = Null
    /\ cachedKeyId = Null
    /\ task = [r \in 1..MaxReq |-> IdleTask]
    /\ resp = NoResp

InitVerify ==
    /\ OthersAtRest
    /\ HubAtRest
    /\ WebhookAtRest
    /\ vcall \in VerifyCalls
    /\ vret = NotCalled

\* The call runs to its end.
Verify ==
    /\ vret = NotCalled
    /\ vret' = VerifySignature(vcall.body, vcall.signature, vcall.secret)
    /\ UNCHANGED <<vcall>>
    /\ UNCHANGED outsideVerify

NextVerify == Verify

SpecVerify == InitVerify /\ [][NextVerify]_vars

(***************************************************************************)
(* The webhook worker (worker.ts:18-114, 154-241): configuration and       *)
(* requests.                                                               *)
(***************************************************************************)
WebhookEnvs ==
    [ WEBHOOK_SECRET : {Undefined, Str(<<>>), Str(Shh)},
      GITHUB_PRIVATE_KEY : {PemRsaA, PemGarbage} ]

Opened == <<"o", "p", "e", "n", "e", "d">>
Synchronize == <<"s", "y", "n", "c", "h", "r", "o", "n", "i", "z", "e">>
Closed == <<"c", "l", "o", "s", "e", "d">>
PullRequestPayload(action) ==
    Obj([ action |-> Str(action),
          pull_request |-> Obj([number |-> Numeric(7)]),
          repository |-> Obj([full_name |-> Str(<<"o", "/", "r">>)]),
          installation |-> Obj([id |-> Numeric(42)]) ])

\* JSON.parse of the body texts of the model.
JsonParse(text) ==
    CASE text = BodyTexts[1] -> Json(Obj([a |-> Numeric(1)]))
      [] text = BodyTexts[2] -> Json(Obj([a |-> Numeric(2)]))
      [] text = BodyTexts[3] -> InvalidJson
      [] text = BodyTexts[4] -> Json(Null)
      [] text = BodyTexts[5] -> Json(PullRequestPayload(Opened))
      [] text = BodyTexts[6] -> Json(PullRequestPayload(Synchronize))
      [] text = BodyTexts[7] -> Json(PullRequestPayload(Closed))
      [] text = BodyTexts[8] ->
            Json(Obj([ action |-> Str(Opened),
                       pull_request |-> Obj([number |-> Numeric(7)]),
                       repository |-> Obj([full_name |-> Str(<<"o", "/", "r">>)]) ]))

WebhookBodies == {BodyTexts[i] : i \in {1, 3, 4, 5, 6, 7, 8}}

\* A header value holds no CR, LF or NUL, and reaches the handler without
\* leading or trailing space or tab.
IsHeaderSpace(c) == c \in {9, 32}
HeaderLegal(s) ==
    /\ \A i \in 1..Len(s) : s[i] \notin {0, 10, 13}
    /\ Len(s) > 0 => (~IsHeaderSpace(s[1]) /\ ~IsHeaderSpace(s[Len(s)]))

\* X-Hub-Signature-256 as a sender may set it for a body: absent, empty, the
\* signature under the secret or under another key or of another body, and
\* that signature with one character changed, cut short, or without prefix.
WebhookSignatures(body) ==
    LET valid == ValidSignature(body, Shh)
        changed ==
            {FlipAt(valid, i, k) : i \in (PrefixLength + 1)..(PrefixLength + 6), k \in 0..7}
            \cup {ReplaceAt(valid, i, c) : i \in (PrefixLength + 1)..(PrefixLength + 6), c \in OddChars}
            \cup { valid, ValidSignature(body, Hush), ValidSignature(BodyTexts[2], Shh),
                   UpperCase(valid), Slice(valid, PrefixLength),
                   SubSeq(valid, 1, Len(valid) - 1), Sha256Prefix, <<>> }
    IN  {Null} \cup {Str(g) : g \in {h \in changed : HeaderLegal(h)}}

WebhookPaths == {"/healthz", "/health", "/webhook"}
WebhookEvents == {Null, Str(<<"pull_request">>), Str(<<"push">>)}
WebhookRequests ==
    UNION { [ method : {"GET", "POST"},
              path : WebhookPaths,
              event : WebhookEvents,
              signature : WebhookSignatures(b),
              body : {b} ] : b \in WebhookBodies }

\* What an outbound fetch comes to: a 2xx response, another response with
\* the text upstream sent (error body, status text), or a rejected promise
\* with the message of the network error.
UpstreamTexts == {"Bad credentials", "upstream stack trace"}
NetworkErrors == {"internal error; reference = 0123"}
Outcomes ==
    {[kind |-> "ok"], [kind |-> "unreadable"]}
    \cup {[kind |-> "not_ok", text |-> t] : t \in UpstreamTexts}
    \cup {[kind |-> "rejected", text |-> t] : t \in NetworkErrors}

\* error.message: a template literal is the sequence of its pieces.
TokenFailure(errorBody) == <<"Failed to get installation token: ", "401", " ", errorBody>>
DiffFailure(statusText) == <<"Failed to fetch diff: ", statusText>>
AgentFailure(errorText) == <<"AI Agent failed: ", "502", " - ", errorText>>
CommentFailure(statusText) == <<"Failed to post comment: ", statusText>>
JsonSyntaxError(text) == <<"Unexpected token in JSON: ", text>>
NullPayloadError == <<"Cannot read properties of null (reading 'action')">>
ImportKeyError(pem) == <<"\"pkcs8\" must be PKCS#8 formatted string: ", pem>>
NullMatchError == <<"Cannot read properties of null (reading 'map')">>
BodyReadError == <<"The request body stream was aborted">>
UnreadableError == <<"Unexpected end of JSON input">>

\* An exception that leaves fetch: the promise rejects and the runtime, not
\* the handler, answers.
Uncaught(error) == [status |-> 500, ctype |-> "none", body |-> error, thrown |-> TRUE]

(***************************************************************************)
(* fetch, handlePullRequest and getInstallationToken.  wlog records, in    *)
(* order, the steps the handler took.                                      *)
(***************************************************************************)
InitWebhook ==
    /\ OthersAtRest
    /\ HubAtRest
    /\ VerifyAtRest
    /\ wenv \in WebhookEnvs
    /\ wreq = NoReq
    /\ wpc = "idle"
    /\ wlog = <<>>
    /\ wres = NoResp

\* The response of the catch block of handlePullRequest: JSON text, no
\* Content-Type given.
PullRequestError(msg) == TextResponse(500, [error |-> msg])

WebhookReturn(res, log) ==
    /\ wres' = res
    /\ wlog' = log
    /\ wpc' = "done"

\* handlePullRequest up to the first outbound call (worker.ts:154-179,
\* 88-98).  `log` is what fetch has done so far.
HandlePullRequest(payload, log) ==
    LET entered == Append(log, "handlePullRequest")
        action == Get(payload, "action")
        prNumber == OptGet(Get(payload, "pull_request"), "number")
        repository == OptGet(Get(payload, "repository"), "full_name")
        installationId == OptGet(Get(payload, "installation"), "id")
    IN  IF ~CanGet(payload)
        THEN WebhookReturn(ErrorResponse(500, NullPayloadError), entered)
        ELSE IF ~Truthy(prNumber) \/ ~Truthy(repository) \/ ~Truthy(installationId)
        THEN WebhookReturn(
                TextResponse(400, "Invalid PR payload (missing PR info or installation ID)"),
                entered)
        ELSE IF action # Str(Opened) /\ action # Str(Synchronize)
        THEN WebhookReturn(JsonResponse(202, [status |-> "ignored", action |-> action]), entered)
        ELSE IF ImportThrows(wenv.GITHUB_PRIVATE_KEY)
        THEN WebhookReturn(PullRequestError(ImportKeyError(wenv.GITHUB_PRIVATE_KEY)),
                           Append(entered, "importPKCS8"))
        ELSE /\ wlog' = entered \o <<"importPKCS8", "sign", "fetch access_tokens">>
             /\ wpc' = "token"
             /\ UNCHANGED wres

\* A variant of VerificationRequired that skips verification only when the
\* secret is absent, and verifies under an empty secret.
VerificationRequiredUnlessAbsent(secret) == secret # Undefined

\* if (env.WEBHOOK_SECRET)
VerificationRequired(secret) == Truthy(secret)

\* fetch, from the request to its response or to the first outbound call.
Receive ==
    /\ wpc = "idle"
    /\ \E q \in WebhookRequests, bodyRead \in BOOLEAN :
        /\ wreq' = q
        /\ IF q.path \in {"/healthz", "/health"}
           THEN WebhookReturn(TextResponse(200, "OK"), <<>>)
           ELSE IF q.method # "POST"
           THEN WebhookReturn(TextResponse(405, "Method Not Allowed"), <<>>)
           ELSE IF ~bodyRead
           THEN WebhookReturn(Uncaught(BodyReadError), <<>>)
           ELSE LET secret == wenv.WEBHOOK_SECRET
                    read == <<"text">>
                    verdict == VerifySignature(q.body, q.signature.s, secret.s)
                    checked == IF VerificationRequired(secret) THEN Append(read, "verifySignature") ELSE read
                    payload == JsonParse(q.body)
                    parsed == Append(checked, "JSON.parse")
                IN  IF VerificationRequired(secret) /\ ~Truthy(q.signature)
                    THEN WebhookReturn(TextResponse(401, "Missing Signature"), read)
                    ELSE IF VerificationRequired(secret) /\ verdict.result = "throw"
                    THEN WebhookReturn(Uncaught(NullMatchError), checked)
                    ELSE IF VerificationRequired(secret) /\ verdict.result = "false"
                    THEN WebhookReturn(TextResponse(401, "Invalid Signature"), checked)
                    ELSE IF ~payload.json
                    THEN WebhookReturn(ErrorResponse(500, JsonSyntaxError(q.body)), parsed)
                    ELSE IF q.event = Str(<<"pull_request">>)
                    THEN HandlePullRequest(payload.v, parsed)
                    ELSE WebhookReturn(
                            JsonResponse(202, [status |-> "accepted", event |-> q.event]),
                            parsed)
    /\ UNCHANGED <<wenv>>
    /\ UNCHANGED outsideWebhook

\* A variant of Outbound without the checks of response.ok: whatever comes
\* back, the handler goes on.
OutboundUnchecked(failure, readsBody, nextCall, nextPc) ==
    /\ \E outcome \in Outcomes :
        LET settled == Append(wlog, outcome.kind)
        IN  IF nextPc # "done"
            THEN /\ wlog' = Append(settled, nextCall)
                 /\ wpc' = nextPc
                 /\ UNCHANGED wres
            ELSE WebhookReturn(JsonResponse(200, [status |-> "success",
                                                  message |-> "Review posted."]),
                               settled)
    /\ UNCHANGED <<wenv, wreq>>
    /\ UNCHANGED outsideWebhook

\* One outbound call of handlePullRequest comes back, and wlog records how:
\* "ok" for a 2xx response, "unreadable" for a 2xx response whose body
\* cannot be read or parsed, "not_ok" for any other status, "rejected" when
\* fetch threw.  On success the next call is made (or the review is
\* reported posted), otherwise the catch block answers 500 with the message
\* of the error.  `failure` maps the text upstream sent to the message of
\* the error thrown; `readsBody` tells whether the handler reads the body of
\* a 2xx response.
Outbound(failure, readsBody, nextCall, nextPc) ==
    /\ \E outcome \in Outcomes :
        LET settled == Append(wlog, outcome.kind)
            success == outcome.kind = "ok" \/ (outcome.kind = "unreadable" /\ ~readsBody)
        IN  CASE success /\ nextPc # "done" ->
                    /\ wlog' = Append(settled, nextCall)
                    /\ wpc' = nextPc
                    /\ UNCHANGED wres
              [] success /\ nextPc = "done" ->
                    WebhookReturn(JsonResponse(200, [status |-> "success",
                                                     message |-> "Review posted."]),
                                  settled)
              [] outcome.kind = "unreadable" /\ readsBody ->
                    WebhookReturn(PullRequestError(UnreadableError), settled)
              [] outcome.kind = "not_ok" ->
                    WebhookReturn(PullRequestError(failure[outcome.text]), settled)
              [] outcome.kind = "rejected" ->
                    WebhookReturn(PullRequestError(<<outcome.text>>), settled)
    /\ UNCHANGED <<wenv, wreq>>
    /\ UNCHANGED outsideWebhook

\* getInstallationToken reads response.json(), and handlePullRequest reads
\* diffResponse.text() and agentResponse.json(); the body of the comment
\* response is not read.
TokenExchanged ==
    /\ wpc = "token"
    /\ Outbound([t \in UpstreamTexts |-> TokenFailure(t)], TRUE, "fetch diff", "diff")
DiffFetched ==
    /\ wpc = "diff"
    /\ Outbound([t \in UpstreamTexts |-> DiffFailure(t)], TRUE, "fetch agent", "agent")
AgentAnswered ==
    /\ wpc = "agent"
    /\ Outbound([t \in UpstreamTexts |-> AgentFailure(t)], TRUE, "fetch comment", "comment")
CommentPosted ==
    /\ wpc = "comment"
    /\ Outbound([t \in UpstreamTexts |-> CommentFailure(t)], FALSE, "", "done")

NextWebhook == Receive \/ TokenExchanged \/ DiffFetched \/ AgentAnswered \/ CommentPosted

SpecWebhook == InitWebhook /\ [][NextWebhook]_vars

(***************************************************************************)
(* The edge discovery worker (DEPLOYMENT.md, "Worker source").  Time is    *)
(* counted in ticks, TicksPerSecond of them to the second, because D1's    *)
(* datetime('now') yields whole seconds while requests arrive at any time. *)
(***************************************************************************)
MaxTicks == 3          \* how often the clock advances in a behaviour
TicksPerSecond == 2    \* resolution of the clock

AgentsPrefix == <<"a", "g", "e", "n", "t", "s", ":">>
All == <<"a", "l", "l">>
Review == <<"r", "e", "v", "i", "e", "w">>
DefaultTTL == <<"6", "0">>

\* DISCOVERY_CACHE_TTL unset, one second, and zero; EDGE_CACHE bound or
\* not.  The Hyperdrive binding AZURE_REGISTRY is bound in every environment;
\* a registry that cannot be reached is an outcome of the query.
DiscoveryEnvs ==
    [ EDGE_CACHE : BOOLEAN,
      DISCOVERY_CACHE_TTL : {Undefined, Str(<<"1">>), Str(<<"0">>)} ]

\* url.searchParams.get('skill'): null when the parameter is absent.
SkillParams == {Null, Str(<<>>), Str(Review), Str(All)}
DiscoveryPaths == {"/healthz", "/discover", "/register", "/agents"}
DiscoveryRequests ==
    { q \in [path : DiscoveryPaths, method : {"GET", "POST"}, skill : SkillParams] :
        /\ q.path # "/discover" => q.skill = Null
        /\ q.path # "/register" => q.method = "GET" }

\* parseInt(s, 10): an optional sign and the longest prefix of decimal
\* digits, NaN when there is none.
RECURSIVE DecimalPrefix(_)
DecimalPrefix(s) ==
    IF s # <<>> /\ IsDigit(s[1]) THEN <<s[1]>> \o DecimalPrefix(Tail(s)) ELSE <<>>
ParseInt10(s) ==
    LET s1 == IF s # <<>> /\ s[1] = " " THEN Tail(s) ELSE s
        negative == s1 # <<>> /\ s1[1] = "-"
        s2 == IF s1 # <<>> /\ s1[1] \in {"+", "-"} THEN Tail(s1) ELSE s1
        digits == DecimalPrefix(s2)
    IN  IF digits = <<>> THEN NaN
        ELSE Num(IF negative THEN 0 - Number(digits) ELSE Number(digits))

\* const cacheKey = skill ? `agents:${skill}` : 'agents:all';
CacheKey(skill) ==
    IF Truthy(skill) THEN AgentsPrefix \o skill.s ELSE AgentsPrefix \o All
CacheKeys == {CacheKey(OrElse(p, Undefined)) : p \in SkillParams}

\* datetime('now') of D1: the time in whole seconds.
DatetimeNow(clock) == clock \div TicksPerSecond

\* A row of agent_cache, or none.  written and by are history: the tick at
\* which the row was written and the skill argument of the updateCache call
\* that wrote it.
NoRow == [none |-> TRUE]
Row(data, clock, skill) ==
    [data |-> data, updated_at |-> DatetimeNow(clock), written |-> clock, by |-> skill]

\* updated_at > datetime('now', '-' || ? || ' seconds'), with <= in place of <.
WithinTTLInclusive(row, clock, cacheTTL) ==
    /\ ~cacheTTL.nan
    /\ cacheTTL.n >= 0
    /\ DatetimeNow(clock) - cacheTTL.n <= row.updated_at

\* updated_at > datetime('now', '-' || ? || ' seconds').  A NaN is bound as
\* NULL and a negative number gives the modifier '--5 seconds': either way
\* datetime() is NULL and the comparison selects no row.
WithinTTL(row, clock, cacheTTL) ==
    /\ ~cacheTTL.nan
    /\ cacheTTL.n >= 0
    /\ DatetimeNow(clock) - cacheTTL.n < row.updated_at

\* JSON.stringify(agents) and JSON.parse(result.data).
Stringify(agents) == Json(Arr(agents))
ParseData(data) == IF data.json THEN data.v ELSE Null

D1Outcomes == {"ok", "error"}

\* getCachedAgents in which a D1 read error is not caught: "throws" stands
\* for the rejection reaching the caller.
GetCachedAgentsUncaught(e, skill, cache, clock, read) ==
    IF ~e.EDGE_CACHE THEN Null
    ELSE IF read = "error" THEN Str(<<"t", "h", "r", "o", "w", "s">>)
    ELSE LET cacheKey == CacheKey(skill)
             cacheTTL == ParseInt10(OrElse(e.DISCOVERY_CACHE_TTL, Str(DefaultTTL)).s)
             result == cache[cacheKey]
         IN  IF result # NoRow /\ WithinTTL(result, clock, cacheTTL)
             THEN ParseData(result.data)
             ELSE Null

\* getCachedAgents(env, skill): the parsed data of the row, or null.
GetCachedAgents(e, skill, cache, clock, read) ==
    IF ~e.EDGE_CACHE THEN Null
    ELSE IF read = "error" THEN Null
    ELSE LET cacheKey == CacheKey(skill)
             cacheTTL == ParseInt10(OrElse(e.DISCOVERY_CACHE_TTL, Str(DefaultTTL)).s)
             result == cache[cacheKey]
         IN  IF result # NoRow /\ WithinTTL(result, clock, cacheTTL)
             THEN ParseData(result.data)
             ELSE Null

\* updateCache(env, agents, skill): the table after the call.
UpdateCache(e, agents, skill, cache, clock, write) ==
    IF ~e.EDGE_CACHE \/ write = "error" THEN cache
    ELSE [cache EXCEPT ![CacheKey(skill)] = Row(Stringify(agents), clock, skill)]

\* The table dock_workers of the registry, by reliability_score.
Generalist == "generalist"
Reviewer == "reviewer"
DockWorkers ==
    << [name |-> Generalist, capabilities |-> {All}],
       [name |-> Reviewer, capabilities |-> {Review}] >>
RegistryErrors == {"connect ETIMEDOUT"}
RegistryOutcomes ==
    { [kind |-> "rows", online |-> s] : s \in {{}, {Generalist, Reviewer}} }
        \cup { [kind |-> "throws", message |-> m] : m \in RegistryErrors }

\* queryAzureRegistry(env, skill): the ONLINE rows, those with the skill
\* when one is asked for.
QueryAzureRegistry(skill, online) ==
    SelectSeq(DockWorkers,
              LAMBDA row : /\ row.name \in online
                           /\ Truthy(skill) => skill.s \in row.capabilities)

EdgeHealthResponse(e) ==
    JsonResponse(200, [status |-> "ok", service |-> "lornu-edge-discovery",
                       hyperdrive_configured |-> TRUE, d1_configured |-> e.EDGE_CACHE])
AgentsResponse(agents, source) ==
    JsonResponse(200, [agents |-> agents, source |-> source, count |-> Len(agents)])
RegistryTimeout(message) ==
    JsonResponse(504, [error |-> "Registry timeout", message |-> message])
NotImplemented ==
    JsonResponse(501, [message |-> "Registration endpoint not yet implemented"])
EdgeNotFound == JsonResponse(404, [error |-> "Not found"])

InitDiscovery ==
    /\ ChunkAtRest
    /\ AuditAtRest
    /\ ApiAtRest
    /\ HubAtRest
    /\ VerifyAtRest
    /\ WebhookAtRest
    /\ denv \in DiscoveryEnvs
    /\ dclock = 0
    /\ dticks = 0
    /\ dcache = [k \in CacheKeys |-> NoRow]
    /\ dreq = NoReq
    /\ dpc = "idle"
    /\ dagents = <<>>
    /\ dres = NoResp

\* Time passes: a tick, or one tick less than the default TTL.
TickSizes == {1, ParseInt10(DefaultTTL).n * TicksPerSecond - 1}
Tick ==
    /\ dticks < MaxTicks
    /\ \E d \in TickSizes : dclock' = dclock + d
    /\ dticks' = dticks + 1
    /\ UNCHANGED <<denv, dcache, dreq, dpc, dagents, dres>>
    /\ UNCHANGED outsideDiscovery

\* fetch for every path but /discover.
EdgeOther ==
    /\ dpc = "idle"
    /\ dreq = NoReq
    /\ \E q \in DiscoveryRequests :
        /\ q.path # "/discover"
        /\ dreq' = q
        /\ dres' = CASE q.path = "/healthz" -> EdgeHealthResponse(denv)
                     [] q.path = "/register" /\ q.method = "POST" -> NotImplemented
                     [] OTHER -> EdgeNotFound
    /\ UNCHANGED <<denv, dclock, dticks, dcache, dpc, dagents>>
    /\ UNCHANGED outsideDiscovery

\* fetch for /discover, up to the answer from the cache or to the await of
\* queryAzureRegistry.  Whatever getCachedAgents threw would reach the catch
\* of fetch.
Discover ==
    /\ dpc = "idle"
    /\ dreq = NoReq
    /\ \E q \in DiscoveryRequests, read \in D1Outcomes :
        /\ q.path = "/discover"
        /\ dreq' = q
        /\ LET skill == OrElse(q.skill, Undefined)
               cachedAgents == GetCachedAgents(denv, skill, dcache, dclock, read)
           IN  IF cachedAgents.t = "string"
               THEN /\ dres' = RegistryTimeout("D1_ERROR")
                    /\ dpc' = "idle"
               ELSE IF Truthy(cachedAgents) /\ Len(cachedAgents.a) > 0
               THEN /\ dres' = AgentsResponse(cachedAgents.a, "edge_cache")
                    /\ dpc' = "idle"
               ELSE /\ dres' = NoResp
                    /\ dpc' = "registry"
    /\ UNCHANGED <<denv, dclock, dticks, dcache, dagents>>
    /\ UNCHANGED outsideDiscovery

\* queryAzureRegistry settles: the response, and updateCache is started
\* without being awaited.
RegistryAnswered ==
    /\ dpc = "registry"
    /\ \E outcome \in RegistryOutcomes :
        IF outcome.kind = "throws"
        THEN /\ dres' = RegistryTimeout(outcome.message)
             /\ dpc' = "idle"
             /\ UNCHANGED dagents
        ELSE LET agents == QueryAzureRegistry(OrElse(dreq.skill, Undefined), outcome.online)
             IN  /\ dagents' = agents
                 /\ dres' = AgentsResponse(agents, "azure_registry")
                 /\ dpc' = "update"
    /\ UNCHANGED <<denv, dclock, dticks, dcache, dreq>>
    /\ UNCHANGED outsideDiscovery

\* The upsert of updateCache settles, after the response was chosen.
CacheUpdated ==
    /\ dpc = "update"
    /\ \E write \in D1Outcomes :
        dcache' = UpdateCache(denv, dagents, OrElse(dreq.skill, Undefined), dcache, dclock, write)
    /\ dpc' = "idle"
    /\ dagents' = <<>>
    /\ UNCHANGED <<denv, dclock, dticks, dreq, dres>>
    /\ UNCHANGED outsideDiscovery

\* The response has gone out and the handler, updateCache included, is done.
EdgeSent ==
    /\ dpc = "idle"
    /\ dreq # NoReq
    /\ dreq' = NoReq
    /\ dres' = NoResp
    /\ UNCHANGED <<denv, dclock, dticks, dcache, dpc, dagents>>
    /\ UNCHANGED outsideDiscovery

NextDiscovery ==
    Tick \/ EdgeOther \/ Discover \/ RegistryAnswered \/ CacheUpdated \/ EdgeSent

SpecDiscovery == InitDiscovery /\ [][NextDiscovery]_vars

(***************************************************************************)
(* The audit worker (src/unnamed/part_002:62-227).                         *)
(***************************************************************************)
\* WORKER_TOKEN is a secret: set, not set, or set to the empty string.
AuditEnvs == [WORKER_TOKEN : {Undefined, Str(<<>>), Str(KeyGood)}]

\* Headers.get normalises a value: leading and trailing whitespace go.
RECURSIVE TrimStart(_)
TrimStart(s) == IF s # <<>> /\ s[1] = " " THEN TrimStart(Tail(s)) ELSE s
RECURSIVE TrimEnd(_)
TrimEnd(s) ==
    IF s # <<>> /\ s[Len(s)] = " " THEN TrimEnd(SubSeq(s, 1, Len(s) - 1)) ELSE s
HeadersGet(raw) == IF raw = Null THEN Null ELSE Str(TrimEnd(TrimStart(raw.s)))

\* The Authorization header as a client may send it.
AuditAuthHeaders ==
    { Null,
      Str(<<>>),
      Str(Bearer),
      Str(<<"B", "e", "a", "r", "e", "r">>),
      Str(Bearer \o KeyGood),
      Str(Bearer \o KeyGood \o <<" ">>),
      Str(Bearer \o <<" ">> \o KeyGood),
      Str(Bearer \o KeyWrong),
      Str(<<"b", "e", "a", "r", "e", "r", " ">> \o KeyGood),
      Str(<<"B", "a", "s", "i", "c", " ">> \o KeyGood),
      Str(KeyGood) }

Deployment == <<"deployment">>
SyncFailed == <<"sync-failed">>
HealthDegraded == <<"health-degraded">>
AuditBodies ==
    { InvalidJson, Json(Null), Json(Obj(<<>>)),
      Json(Obj([event |-> Str(Deployment), app |-> Str(<<"hub">>)])),
      Json(Obj([event |-> Str(SyncFailed), app |-> Str(<<"hub">>)])),
      Json(Obj([event |-> Str(HealthDegraded), app |-> Str(<<"hub">>)])),
      Json(Obj([event |-> Str(<<"rollback">>), app |-> Str(<<"hub">>)])) }
AuditPaths == {"/deploy-event", "/health", "/other"}
AuditMethods == {"OPTIONS", "GET", "POST", "PUT"}
\* Only POST /deploy-event reads the body.
AuditRequests ==
    { q \in [path : AuditPaths, method : AuditMethods, auth : AuditAuthHeaders,
             body : AuditBodies \cup {NoBody}] :
        (q.path = "/deploy-event" /\ q.method = "POST") <=> q.body # NoBody }

\* processDeploymentEvent(event): the tasks of the event type.
ProcessDeploymentEvent(event) ==
    LET type == Get(event, "event")
    IN  [ processed |-> TRUE,
          tasks |->
            CASE type = Str(Deployment) ->
                    <<"Update Linear issue status",
                      "Log successful deployment to audit system">>
              [] type = Str(SyncFailed) ->
                    <<"Create/update Linear issue for sync failure",
                      "Send Slack alert", "Log failure to audit system">>
              [] type = Str(HealthDegraded) ->
                    <<"Create/update Linear issue for health degradation",
                      "Send Slack alert", "Log health issue to audit system">>
              [] OTHER -> <<"Unknown event type - log for review">> ]

\* A variant of AuditGate that compares the token only when WORKER_TOKEN is
\* set, as the Vectorize routes do with their token.
AuditGateOpenWhenUnset(workerToken, authHeader) ==
    IF ~Truthy(authHeader) \/ ~StartsWith(authHeader.s, Bearer) THEN 401
    ELSE IF Truthy(workerToken) /\ Str(Slice(authHeader.s, 7)) # workerToken THEN 403
    ELSE 0

\* The validation of the Bearer token: the status of the rejection, or 0 to
\* go on.
AuditGate(workerToken, authHeader) ==
    IF ~Truthy(authHeader) \/ ~StartsWith(authHeader.s, Bearer) THEN 401
    ELSE IF Str(Slice(authHeader.s, 7)) # workerToken THEN 403
    ELSE 0

AuditGateResponse(status) ==
    IF status = 401
    THEN JsonResponse(401, [error |-> "Unauthorized",
                            message |-> "Missing or invalid Authorization header"])
    ELSE JsonResponse(403, [error |-> "Forbidden", message |-> "Invalid token"])

InitAudit ==
    /\ ChunkAtRest
    /\ DiscoveryAtRest
    /\ ApiAtRest
    /\ HubAtRest
    /\ VerifyAtRest
    /\ WebhookAtRest
    /\ aenv \in AuditEnvs
    /\ areq = NoReq
    /\ alog = <<>>
    /\ ares = NoResp

AuditReturn(res, log) ==
    /\ ares' = res
    /\ alog' = log

\* fetch: the handler has no await but request.json().
AuditFetch ==
    /\ areq = NoReq
    /\ \E q \in AuditRequests :
        /\ areq' = q
        /\ LET gate == AuditGate(aenv.WORKER_TOKEN, HeadersGet(q.auth))
           IN  IF q.method = "OPTIONS"
               THEN AuditReturn([status |-> 200, ctype |-> "none", body |-> Null], <<>>)
               ELSE IF gate # 0
               THEN AuditReturn(AuditGateResponse(gate), <<>>)
               ELSE IF q.path = "/deploy-event" /\ q.method = "POST"
               THEN IF ~q.body.json
                    THEN AuditReturn(
                            JsonResponse(500, [error |-> "Internal Server Error",
                                               message |-> JsonSyntaxError(<<>>)]),
                            <<"request.json">>)
                    ELSE IF ~CanGet(q.body.v)
                    THEN AuditReturn(
                            JsonResponse(500, [error |-> "Internal Server Error",
                                               message |-> NullPayloadError]),
                            <<"request.json">>)
                    ELSE AuditReturn(
                            JsonResponse(200, [status |-> "processed",
                                               event |-> Get(q.body.v, "event"),
                                               app |-> Get(q.body.v, "app"),
                                               result |-> ProcessDeploymentEvent(q.body.v)]),
                            <<"request.json", "processDeploymentEvent">>)
               ELSE IF q.path = "/health" /\ q.method = "GET"
               THEN AuditReturn(JsonResponse(200, [status |-> "healthy",
                                                   service |-> "audit-worker"]), <<>>)
               ELSE AuditReturn(JsonResponse(404, [error |-> "Not Found",
                                                   message |-> "Endpoint not found"]), <<>>)
    /\ UNCHANGED aenv
    /\ UNCHANGED outsideAudit

\* The response has gone out.
AuditSent ==
    /\ areq # NoReq
    /\ areq' = NoReq
    /\ alog' = <<>>
    /\ ares' = NoResp
    /\ UNCHANGED aenv
    /\ UNCHANGED outsideAudit

NextAudit == AuditFetch \/ AuditSent

SpecAudit == InitAudit /\ [][NextAudit]_vars

(***************************************************************************)
(* The Vectorize and RAG routes of the webhook worker (worker.ts:26-42,    *)
(* 247-382).                                                               *)
(***************************************************************************)
\* VECTORIZE_API_TOKEN is optional: not set, set to the empty string, set.
ApiEnvs == [VECTORIZE_API_TOKEN : {Undefined, Str(<<>>), Str(KeyGood)}]

PathTrigger == "/api/vectorize/trigger"
PathSearch == "/api/rag/search"
PathStatus == "/api/vectorize/status"
FullRebuild == <<"full_rebuild">>
TriggerBodies ==
    { InvalidJson, Json(Null), Json(Obj(<<>>)),
      Json(Obj([action |-> Str(FullRebuild)])),
      Json(Obj([action |-> Str(<<"incremental">>)])) }
SearchBodies ==
    { InvalidJson, Json(Null), Json(Obj(<<>>)),
      Json(Obj([query |-> Str(<<>>)])),
      Json(Obj([query |-> Str(<<"q">>)])),
      Json(Obj([query |-> Str(<<"q">>), top_k |-> Numeric(3)])) }
\* The routes as fetch dispatches them: POST for the trigger and the search,
\* GET for the status; a GET of the first two is no webhook either.
ApiRequests ==
    { q \in [path : {PathTrigger, PathSearch, PathStatus}, method : {"GET", "POST"},
             auth : AuditAuthHeaders,
             body : TriggerBodies \cup SearchBodies \cup {NoBody}] :
        /\ q.path = PathStatus => q.method = "GET"
        /\ q.method = "GET" => q.body = NoBody /\ q.auth = Null
        /\ (q.path = PathTrigger /\ q.method = "POST") => q.body \in TriggerBodies
        /\ (q.path = PathSearch /\ q.method = "POST") => q.body \in SearchBodies }

\* A variant of ApiGate that compares the token whether or not
\* VECTORIZE_API_TOKEN is set, as the audit worker does.
ApiGateAlwaysCompares(apiToken, authHeader) ==
    IF ~Truthy(authHeader) \/ ~StartsWith(authHeader.s, Bearer) THEN 401
    ELSE IF Str(Slice(authHeader.s, 7)) # apiToken THEN 403
    ELSE 0

\* "Verify authorization" of handleVectorizeTrigger and handleRagSearch: the
\* status of the rejection, or 0 to go on.
ApiGate(apiToken, authHeader) ==
    IF ~Truthy(authHeader) \/ ~StartsWith(authHeader.s, Bearer) THEN 401
    ELSE IF Truthy(apiToken) /\ Str(Slice(authHeader.s, 7)) # apiToken THEN 403
    ELSE 0

ApiGateResponse(status) ==
    IF status = 401
    THEN ErrorResponse(401, "Missing or invalid authorization")
    ELSE ErrorResponse(403, "Invalid token")

\* What indexAllDocuments, searchVectorize and getIndexStatus come to:
\* indexAllDocuments and getIndexStatus catch their errors and report them
\* in their result, searchVectorize throws.
ApiOutcomes == {"ok", "failed"}
SearchError == <<"AI binding failed">>

InitApi ==
    /\ ChunkAtRest
    /\ DiscoveryAtRest
    /\ AuditAtRest
    /\ HubAtRest
    /\ VerifyAtRest
    /\ WebhookAtRest
    /\ renv \in ApiEnvs
    /\ rreq = NoReq
    /\ rpc = "idle"
    /\ rlog = <<>>
    /\ rres = NoResp

ApiReturn(res, log) ==
    /\ rres' = res
    /\ rlog' = log
    /\ rpc' = "done"

ApiAwait(pc, log) ==
    /\ rres' = NoResp
    /\ rlog' = log
    /\ rpc' = pc

\* handleVectorizeTrigger up to its response or to the await of
\* indexAllDocuments.
HandleVectorizeTrigger(q) ==
    LET gate == ApiGate(renv.VECTORIZE_API_TOKEN, HeadersGet(q.auth))
        read == <<"request.json">>
        action == OrElse(Get(q.body.v, "action"), Str(FullRebuild))
    IN  IF gate # 0 THEN ApiReturn(ApiGateResponse(gate), <<>>)
        ELSE IF ~q.body.json THEN ApiReturn(ErrorResponse(500, JsonSyntaxError(<<>>)), read)
        ELSE IF ~CanGet(q.body.v) THEN ApiReturn(ErrorResponse(500, NullPayloadError), read)
        ELSE IF action = Str(FullRebuild)
        THEN ApiAwait("index", Append(read, "indexAllDocuments"))
        ELSE ApiReturn(JsonResponse(202, [status |-> "accepted", action |-> action]), read)

\* handleRagSearch up to its response or to the await of searchVectorize.
HandleRagSearch(q) ==
    LET gate == ApiGate(renv.VECTORIZE_API_TOKEN, HeadersGet(q.auth))
        read == <<"request.json">>
    IN  IF gate # 0 THEN ApiReturn(ApiGateResponse(gate), <<>>)
        ELSE IF ~q.body.json THEN ApiReturn(ErrorResponse(500, JsonSyntaxError(<<>>)), read)
        ELSE IF ~CanGet(q.body.v) THEN ApiReturn(ErrorResponse(500, NullPayloadError), read)
        ELSE IF ~Truthy(Get(q.body.v, "query"))
        THEN ApiReturn(ErrorResponse(400, "Query is required"), read)
        ELSE ApiAwait("search", Append(read, "searchVectorize"))

\* fetch for the three routes.
ApiFetch ==
    /\ rpc = "idle"
    /\ \E q \in ApiRequests :
        /\ rreq' = q
        /\ CASE q.path = PathTrigger /\ q.method = "POST" -> HandleVectorizeTrigger(q)
             [] q.path = PathSearch /\ q.method = "POST" -> HandleRagSearch(q)
             [] q.path = PathStatus /\ q.method = "GET" ->
                    ApiAwait("status", <<"getIndexStatus">>)
             [] OTHER -> ApiReturn(TextResponse(405, "Method Not Allowed"), <<>>)
    /\ UNCHANGED renv
    /\ UNCHANGED outsideApi

\* indexAllDocuments returns its IndexResult.
IndexDone ==
    /\ rpc = "index"
    /\ \E outcome \in ApiOutcomes :
        ApiReturn(JsonResponse(200, [status |-> "success",
                                     message |-> "Full index rebuild completed",
                                     details |-> [success |-> outcome = "ok"]]),
                  rlog)
    /\ UNCHANGED <<renv, rreq>>
    /\ UNCHANGED outsideApi

\* searchVectorize returns its matches or throws.
SearchDone ==
    /\ rpc = "search"
    /\ \E outcome \in ApiOutcomes :
        ApiReturn(IF outcome = "ok"
                  THEN JsonResponse(200, [status |-> "success", results |-> <<>>])
                  ELSE ErrorResponse(500, SearchError),
                  rlog)
    /\ UNCHANGED <<renv, rreq>>
    /\ UNCHANGED outsideApi

\* getIndexStatus returns the status of the index.
StatusDone ==
    /\ rpc = "status"
    /\ \E outcome \in ApiOutcomes :
        ApiReturn(JsonResponse(200, [status |-> "success",
                                     index |-> [healthy |-> outcome = "ok"]]),
                  rlog)
    /\ UNCHANGED <<renv, rreq>>
    /\ UNCHANGED outsideApi

\* The response has gone out.
ApiSent ==
    /\ rpc = "done"
    /\ rreq' = NoReq
    /\ rpc' = "idle"
    /\ rlog' = <<>>
    /\ rres' = NoResp
    /\ UNCHANGED renv
    /\ UNCHANGED outsideApi

NextApi == ApiFetch \/ IndexDone \/ SearchDone \/ StatusDone \/ ApiSent

SpecApi == InitApi /\ [][NextApi]_vars

(***************************************************************************)
(* chunkText (vectorize_indexer.ts:39-87).  A text is a sequence of runs,  *)
(* each a number of characters that are all whitespace or all not: the     *)
(* function looks at nothing else of its text.                             *)
(***************************************************************************)
MaxRuns == 3    \* runs of a text

CHUNK_SIZE == 1000
CHUNK_OVERLAP == 100
CHARS_PER_TOKEN == 4
chunkSizeChars == CHUNK_SIZE * CHARS_PER_TOKEN
overlapChars == CHUNK_OVERLAP * CHARS_PER_TOKEN
stepSize == chunkSizeChars - overlapChars

\* Runs as long as a window, a step, the overlap, and a character more or
\* less.
RunLengths == {1, overlapChars, stepSize - 1, stepSize, chunkSizeChars}
Runs == [ws : BOOLEAN, len : RunLengths]
Texts == UNION {[1..n -> Runs] : n \in 0..MaxRuns}
Sources == {<<"d", "o", "c", ".", "m", "d">>, <<"a", "/", "b", ".", "t", "x", "t">>}

\* The offset at which run i of the text starts, and text.length.
RECURSIVE RunStart(_, _)
RunStart(t, i) == IF i = 1 THEN 0 ELSE RunStart(t, i - 1) + t[i - 1].len
TextLength(t) == RunStart(t, Len(t) + 1)

Least(S) == CHOOSE x \in S : \A y \in S : x <= y
Greatest(S) == CHOOSE x \in S : \A y \in S : x >= y

\* text.slice(from, to).trim(): the offsets of what is left of the window,
\* the same offset twice when it is all whitespace.
SliceTrim(t, from, to) ==
    LET inked == {i \in 1..Len(t) : /\ ~t[i].ws
                                    /\ RunStart(t, i) < to
                                    /\ RunStart(t, i + 1) > from}
    IN  IF inked = {} THEN [from |-> from, to |-> from]
        ELSE [ from |-> Least({IF RunStart(t, i) > from THEN RunStart(t, i) ELSE from :
                               i \in inked}),
               to |-> Greatest({IF RunStart(t, i + 1) < to THEN RunStart(t, i + 1) ELSE to :
                                i \in inked}) ]

\* String(n): the decimal digits of a natural number.
RECURSIVE ToDecimal(_)
ToDecimal(n) ==
    IF n < 10 THEN <<Digits[n + 1]>>
    ELSE ToDecimal(n \div 10) \o <<Digits[(n % 10) + 1]>>

\* `${source}-chunk-${chunkIndex}`
ChunkId(src, index) == src \o <<"-", "c", "h", "u", "n", "k", "-">> \o ToDecimal(index)

\* The chunk pushed for a window; createdAt, a reading of the clock, is left
\* out.
Chunk(src, index, trimmedContent) ==
    [ id |-> ChunkId(src, index),
      content |-> trimmedContent,
      metadata |-> [source |-> src, chunkIndex |-> index, totalChunks |-> -1,
                    content |-> trimmedContent] ]

\* A variant of the loop that counts every window, pushed or skipped.
NextIndexCountingSkipped(index, pushed) == index + 1

\* chunkIndex++ inside if (content.trim().length > 0)
NextIndex(index, pushed) == IF pushed THEN index + 1 ELSE index

InitChunk ==
    /\ DiscoveryAtRest
    /\ AuditAtRest
    /\ ApiAtRest
    /\ HubAtRest
    /\ VerifyAtRest
    /\ WebhookAtRest
    /\ ctext \in Texts
    /\ csource \in Sources
    /\ position = 0
    /\ chunkIndex = 0
    /\ cchunks = <<>>
    /\ cpc = "idle"

\* The call, up to the first test of the loop condition.
ChunkCall ==
    /\ cpc = "idle"
    /\ cpc' = "loop"
    /\ UNCHANGED <<ctext, csource, position, chunkIndex, cchunks>>
    /\ UNCHANGED outsideChunk

\* One test of position < text.length and, when it holds, one iteration.
ChunkLoop ==
    /\ cpc = "loop"
    /\ IF position < TextLength(ctext)
       THEN LET end == IF position + chunkSizeChars < TextLength(ctext)
                       THEN position + chunkSizeChars ELSE TextLength(ctext)
                content == SliceTrim(ctext, position, end)
                pushed == content.to - content.from > 0
            IN  /\ cchunks' = IF pushed
                              THEN Append(cchunks, Chunk(csource, chunkIndex, content))
                              ELSE cchunks
                /\ chunkIndex' = NextIndex(chunkIndex, pushed)
                /\ IF end = TextLength(ctext)
                   THEN /\ cpc' = "update"
                        /\ UNCHANGED position
                   ELSE /\ position' = position + stepSize
                        /\ UNCHANGED cpc
       ELSE /\ cpc' = "update"
            /\ UNCHANGED <<position, chunkIndex, cchunks>>
    /\ UNCHANGED <<ctext, csource>>
    /\ UNCHANGED outsideChunk

\* chunks.forEach(chunk => { chunk.metadata.totalChunks = chunks.length });
\* return chunks
ChunkReturn ==
    /\ cpc = "update"
    /\ cchunks' = [i \in 1..Len(cchunks) |->
                     [cchunks[i] EXCEPT !.metadata.totalChunks = Len(cchunks)]]
    /\ cpc' = "done"
    /\ UNCHANGED <<ctext, csource, position, chunkIndex>>
    /\ UNCHANGED outsideChunk

NextChunk == ChunkCall \/ ChunkLoop \/ ChunkReturn

\* chunkText is synchronous: once called it runs on until it returns.
SpecChunk == InitChunk /\ [][NextChunk]_vars /\ WF_vars(NextChunk)

(***************************************************************************)
(* Properties of verifySignature.                                          *)
(***************************************************************************)
Returned == vret # NotCalled

\* 'sha256=' followed by exactly 64 hexadecimal characters, and the 32
\* bytes such a suffix encodes.
WellFormed(g) ==
    /\ StartsWith(g, Sha256Prefix)
    /\ Len(g) = PrefixLength + HexLength
    /\ \A i \in (PrefixLength + 1)..Len(g) : HexValue(g[i]) >= 0
HexDecode(hex) ==
    [i \in 1..(Len(hex) \div 2) |-> 16 * HexValue(hex[2 * i - 1]) + HexValue(hex[2 * i])]
EncodesDigest(g, body, secret) ==
    /\ WellFormed(g)
    /\ HexDecode(Slice(g, PrefixLength)) = HmacSha256(body, secret)

\* C7: verifySignature(B, 'sha256=' + hex(HMAC-SHA256(B, S)), S) is true;
\* it returns true iff the 32 bytes decoded from the claimed signature are
\* the HMAC-SHA256 digest of the body under the secret, and false in every
\* other case.
C7_TrueIffDigest ==
    Returned =>
        /\ vcall.signature = ValidSignature(vcall.body, vcall.secret) => vret.result = "true"
        /\ vret.result = "true" <=> EncodesDigest(vcall.signature, vcall.body, vcall.secret)
        /\ vret.result # "true" => vret.result = "false"

\* The first sentence of C7 alone: the signature GitHub computes verifies.
ValidSignatureVerifies ==
    (Returned /\ vcall.signature = ValidSignature(vcall.body, vcall.secret)) =>
        vret.result = "true"

\* C8: for every single-bit perturbation of the valid signature string
\* (one bit of one character flipped, a change of case included),
\* verifySignature returns false.
C8_BitFlipIsFalse ==
    (Returned /\ vcall.signature \in SingleBitFlips(ValidSignature(vcall.body, vcall.secret))) =>
        vret.result = "false"

\* C9: verifySignature returns false, and does not throw, for every claimed
\* signature that is not 'sha256=' followed by exactly 64 hexadecimal
\* characters.
C9_MalformedIsFalse ==
    (Returned /\ ~WellFormed(vcall.signature)) => vret.result = "false"

\* C19: for a claimed signature that is not 'sha256=' followed by exactly 64
\* hexadecimal characters (wrong prefix, suffix of another length, suffix that
\* is not hex) verifySignature imports no HMAC key and computes no HMAC.
C19_NoCryptoForMalformed ==
    (Returned /\ ~WellFormed(vcall.signature)) => ~vret.hmac

\* The part of C19 that is about the prefix.
WrongPrefixNoCrypto ==
    (Returned /\ ~StartsWith(vcall.signature, Sha256Prefix)) =>
        (~vret.hmac /\ vret.result = "false")

\* C20: for every well-shaped claimed signature the comparison loop runs
\* over all 32 pairs of bytes, wherever the first pair that differs is, and
\* the result is true exactly when no pair differs.
C20_LoopNeverExitsEarly ==
    (Returned /\ WellFormed(vcall.signature)) =>
        /\ vret.iterations = DigestLength
        /\ vret.result = (IF HexDecode(Slice(vcall.signature, PrefixLength))
                                = HmacSha256(vcall.body, vcall.secret)
                          THEN "true" ELSE "false")

\* A well-shaped signature whose first byte already differs from the digest,
\* compared over all 32 pairs.
C20_Witness ==
    /\ Returned /\ WellFormed(vcall.signature)
    /\ HexDecode(Slice(vcall.signature, PrefixLength))[1]
          # HmacSha256(vcall.body, vcall.secret)[1]
    /\ vret.iterations = DigestLength
    /\ vret.result = "false"

(***************************************************************************)
(* Properties of the OIDC hub.  Each is stated of the exchange in `resp`,  *)
(* which every response of every request passes through.                   *)
(***************************************************************************)
Answered == resp # NoResp
IsMint(x) == x.req.path = PathMint /\ x.req.method = "POST"
IsJson(x) == x.res.ctype = "application/json"
HasToken(x) == IsJson(x) /\ "id_token" \in DOMAIN x.res.body
GoodBody == Json(Obj([subject |-> Str(SvcA), audience |-> Str(SvcB)]))

\* C1: every successful JWKS response carries one key object with kid,
\* use 'sig' and alg 'RS256' that holds only the public half of the signing
\* key: no private member (d, p, q, dp, dq, qi) is in it.
C1_JwksPublicOnly ==
    (Answered /\ resp.req.path = PathJwks /\ resp.res.status = 200) =>
        LET keys == resp.res.body.keys
        IN  /\ Len(keys) = 1
            /\ "kid" \in DOMAIN keys[1]
            /\ keys[1].use = "sig"
            /\ keys[1].alg = "RS256"
            /\ DOMAIN keys[1] \cap PrivateMembers = {}

\* C2: while MINT_API_KEY is not configured (absent or empty), every
\* POST /mint is answered 503 and nothing is signed or returned, whatever
\* the Authorization header and the body.
C2_UnconfiguredIs503 ==
    (Answered /\ IsMint(resp) /\ ~Truthy(env.MINT_API_KEY)) =>
        /\ resp.res = ErrorResponse(503, "Service not configured: MINT_API_KEY required")
        /\ ~resp.signed
        /\ ~HasToken(resp)

C2_Witness ==
    /\ Answered /\ IsMint(resp)
    /\ env.MINT_API_KEY = Str(<<>>)
    /\ resp.req.auth = Str(Bearer \o KeyGood)
    /\ resp.req.body = GoodBody
    /\ resp.res.status = 503

NoSubject(b) ==
    \/ ~b.json
    \/ Get(b.v, "subject").t # "string"
    \/ Get(b.v, "subject").s = <<>>

\* C4: every POST /mint whose body has no non-empty subject is answered
\* with a status of the 400 class, and nothing is signed or returned.
C4_NoSubjectIs4xx ==
    (Answered /\ IsMint(resp) /\ NoSubject(resp.req.body)) =>
        /\ resp.res.status \in 400..499
        /\ ~resp.signed
        /\ ~HasToken(resp)

\* C4, its second half alone: a POST /mint whose body has no non-empty
\* subject never produces a token.
C4_NoSubjectNeverMints ==
    (Answered /\ IsMint(resp) /\ NoSubject(resp.req.body)) => ~HasToken(resp)

\* An audience that is a non-empty string, and an aud claim that is one.
NonEmptyString(v) == v.t = "string" /\ v.s # <<>>
NoAudience(b, e) ==
    /\ ~b.json \/ ~NonEmptyString(Get(b.v, "audience"))
    /\ ~NonEmptyString(e.ALLOWED_AUDIENCE)

\* C5: a POST /mint with no resolvable audience (no non-empty audience in
\* the body, no ALLOWED_AUDIENCE) is answered with an error before anything
\* is signed, and no issued token has an absent or empty aud.
C5_NoAudienceNoToken ==
    (Answered /\ IsMint(resp)) =>
        /\ NoAudience(resp.req.body, env) =>
              /\ resp.res.status >= 400
              /\ ~resp.signed
              /\ ~HasToken(resp)
        /\ HasToken(resp) =>
              /\ "aud" \in DOMAIN resp.res.body.id_token.payload
              /\ Truthy(resp.res.body.id_token.payload.aud)
              /\ resp.res.body.id_token.payload.aud # Arr(<<>>)

\* C6: the claims of a minted token other than iss, sub, aud, iat and exp
\* are exactly the caller's claims mapping, value for value; without
\* caller claims the token has the five registered claims and no other.
Registered == {"iss", "sub", "aud", "iat", "exp"}
CallerClaims(b) ==
    IF Get(b.v, "claims").t = "object" THEN Get(b.v, "claims").o ELSE <<>>
C6_ClaimsVerbatim ==
    (Answered /\ HasToken(resp)) =>
        LET payload == resp.res.body.id_token.payload
            caller == CallerClaims(resp.req.body)
        IN  /\ DOMAIN payload \ Registered = DOMAIN caller \ Registered
            /\ \A k \in DOMAIN caller \ Registered : payload[k] = caller[k]

C6_Witness ==
    /\ Answered /\ HasToken(resp)
    /\ Get(resp.req.body.v, "claims") = ClaimsSub
    /\ resp.res.body.id_token.payload.email = ClaimsSub.o.email
    /\ resp.res.body.id_token.payload.sub = Str(SvcA)

\* The key identifier of the deployment: KEY_ID when configured, and
\* otherwise the SHA-256 thumbprint of the public key (RFC 7638: e, kty, n).
Thumbprint(pem) == Str(<<"sha256", "AQAB", "RSA", "n:" \o pem>>)
ExpectedKid == IF Truthy(env.KEY_ID) THEN env.KEY_ID ELSE Thumbprint(env.PRIVATE_KEY)
IsJwks(x) == x.req.path = PathJwks /\ x.res.status = 200

\* C11: in one process, under every interleaving of mint and JWKS requests,
\* the kid in the header of every minted token and the kid of the key of
\* every successful JWKS response are the same identifier (KEY_ID, or the
\* thumbprint), the token is signed with the key that JWKS publishes under
\* that kid, and the key identifier, once returned, never changes.
C11_KidAgrees ==
    /\ [](Answered =>
            /\ HasToken(resp) =>
                  /\ resp.res.body.id_token.header.kid = ExpectedKid
                  /\ resp.res.body.id_token.signedWith = env.PRIVATE_KEY
            /\ IsJwks(resp) =>
                  /\ resp.res.body.keys[1].kid = ExpectedKid
                  /\ resp.res.body.keys[1].n = "n:" \o env.PRIVATE_KEY)
    /\ [][Truthy(cachedKeyId) => cachedKeyId' = cachedKeyId]_vars

\* A token goes out while a JWKS request that raced with its mint is about
\* to publish the key, both with the derived key identifier.
C11_Witness ==
    /\ Answered /\ HasToken(resp)
    /\ ~Truthy(env.KEY_ID)
    /\ \E r \in Slots :
          /\ task[r].pc = "jwks_export"
          /\ task[r].keyId = resp.res.body.id_token.header.kid
          /\ task[r].keyId = Thumbprint(env.PRIVATE_KEY)

\* The lifetime the deployment is configured with, in seconds, and the
\* audience of a request.
ConfiguredSeconds ==
    IF Truthy(env.TOKEN_EXPIRATION) THEN Secs(env.TOKEN_EXPIRATION) ELSE 900
RequestedAudience(b) ==
    IF Truthy(Get(b.v, "audience")) THEN Get(b.v, "audience") ELSE env.ALLOWED_AUDIENCE
SubAndAudExact(x) ==
    /\ x.res.body.id_token.payload.sub = Get(x.req.body.v, "subject")
    /\ x.res.body.id_token.payload.aud = RequestedAudience(x.req.body)

\* C12, as claimed: in every minted token exp is iat plus the configured
\* lifetime (900 s when TOKEN_EXPIRATION is unset), and sub and aud are the
\* request's subject and the resolved audience, also when the caller's
\* claims hold sub, aud, iss, iat or exp.
C12_ExpIsIatPlusLifetime ==
    (Answered /\ HasToken(resp)) =>
        /\ resp.res.body.id_token.payload.exp =
              resp.res.body.id_token.payload.iat + ConfiguredSeconds
        /\ SubAndAudExact(resp)

\* C12, amended: in every minted token exp is iat plus the configured
\* lifetime or one second more (iat and exp come from two readings of the
\* clock), and sub and aud are the request's subject and the resolved
\* audience, also when the caller's claims hold sub, aud, iss, iat or exp.
C12_ExpWithinOneSecond ==
    (Answered /\ HasToken(resp)) =>
        /\ SubAndAudExact(resp)
        /\ resp.res.body.id_token.payload.exp - resp.res.body.id_token.payload.iat
              \in {ConfiguredSeconds, ConfiguredSeconds + 1}

\* A token for a request whose claims name sub, aud, iss, iat and exp, issued
\* across a tick of the clock.
C12_Witness ==
    /\ Answered /\ HasToken(resp)
    /\ Get(resp.req.body.v, "claims") = ClaimsSub
    /\ ~Truthy(env.TOKEN_EXPIRATION)
    /\ resp.res.body.id_token.payload.sub = Str(SvcA)
    /\ resp.res.body.id_token.payload.aud = Str(AudDefault)
    /\ resp.res.body.id_token.payload.exp = resp.res.body.id_token.payload.iat + 901

\* C13: the lifetime of a minted token is the expiration the request
\* carries when it carries one, and the configured default (TOKEN_EXPIRATION,
\* else 15 minutes) otherwise, so that requests that differ in their
\* expiration get tokens of different lifetimes.  The lifetime is taken up
\* to the second that may pass between the two readings of the clock.
RequestedSeconds(b) ==
    IF Truthy(Get(b.v, "expiration")) THEN Secs(Get(b.v, "expiration")) ELSE ConfiguredSeconds
C13_RequestedExpirationHonoured ==
    (Answered /\ HasToken(resp)) =>
        resp.res.body.id_token.payload.exp - resp.res.body.id_token.payload.iat
            \in {RequestedSeconds(resp.req.body), RequestedSeconds(resp.req.body) + 1}

\* The failures of C14, told from the configuration and the request: the
\* key does not import; the key cannot be exported (for the JWKS document, or
\* for the thumbprint when no KEY_ID is configured); the signing chain
\* throws on the configured expiration.
Admitted(x) == IsMint(x) /\ MintGate(env.MINT_API_KEY, x.req.auth) = 0
KeyFails(x) ==
    \/ env.PRIVATE_KEY = PemGarbage
    \/ runtime = "webcrypto" /\ (x.req.path = PathJwks \/ ~Truthy(env.KEY_ID))
SigningFails(x) ==
    /\ env.TOKEN_EXPIRATION = Str(ExpSoon)
    /\ x.req.body.json
    /\ CanGet(x.req.body.v)
    /\ Truthy(Get(x.req.body.v, "subject"))
    /\ Truthy(RequestedAudience(x.req.body))
GenericFailure(x) ==
    x.res = ErrorResponse(500, IF x.req.path = PathJwks
                               THEN "Failed to generate JWKS"
                               ELSE "Token minting failed")

\* C14: when key import, key-ID derivation, JWK export or signing fails in
\* a JWKS or mint request, the response is 500 with the fixed body of the
\* route; every 500 of the hub is one of these two responses, so nothing of
\* the exception reaches the caller.
C14_FailureIsGeneric ==
    Answered =>
        /\ (resp.req.path = PathJwks /\ KeyFails(resp)) => GenericFailure(resp)
        /\ (Admitted(resp) /\ (KeyFails(resp) \/ SigningFails(resp))) => GenericFailure(resp)
        /\ resp.res.status = 500 => GenericFailure(resp)

\* A mint request that is admitted and fails while the key identifier is
\* derived (the imported key cannot be exported), answered with the fixed body.
C14_Witness ==
    /\ Answered /\ Admitted(resp)
    /\ env.PRIVATE_KEY = PemRsaA /\ runtime = "webcrypto" /\ ~Truthy(env.KEY_ID)
    /\ resp.res.status = 500
    /\ resp.res.body = [error |-> "Token minting failed"]

\* C17: the cached key and the cached key identifier, once loaded, are never
\* reset and never given another value; a request imports the key only when
\* it finds no key cached, and derives the identifier only when it finds
\* none cached, so that requests after the first successful load use the
\* cached pair.
Importing(t) == t.pc \in {"key_import", "kid_import"}
Deriving(t) == t.pc \in {"kid_import", "kid_derive"}
C17_LoadedOnce ==
    [][ /\ Truthy(cachedPrivateKey) => cachedPrivateKey' = cachedPrivateKey
        /\ Truthy(cachedKeyId) => cachedKeyId' = cachedKeyId
        /\ \A r \in Slots :
              /\ (Importing(task'[r]) /\ ~Importing(task[r])) => ~Truthy(cachedPrivateKey)
              /\ (Deriving(task'[r]) /\ ~Deriving(task[r])) => ~Truthy(cachedKeyId)
      ]_vars

\* A token has gone out, so the pair is loaded, and the next request has
\* taken the key from the cache.
C17_Witness ==
    /\ Answered /\ HasToken(resp)
    /\ Truthy(cachedPrivateKey) /\ Truthy(cachedKeyId)
    /\ \E r \in Slots :
          /\ task[r].pc = "key_ret"
          /\ task[r].privateKey = cachedPrivateKey

\* C18: under every interleaving of mint and JWKS requests, several of
\* which may find the cache unloaded and each run the initializer, every key
\* a request holds or the cache holds is the key of the configuration, every
\* key identifier a request holds or the cache holds is the identifier of
\* that key, and so are the key and the identifier of every token and of
\* every published key: what a single sequential initialisation produces.
ConfiguredKey == [t |-> "key", type |-> "private", pem |-> env.PRIVATE_KEY]
WebhookPost ==
    /\ wreq # NoReq
    /\ wreq.method = "POST"
    /\ wreq.path \notin {"/healthz", "/health"}
    /\ wres # Uncaught(BodyReadError)
SecretConfigured == wenv # NoReq /\ Truthy(wenv.WEBHOOK_SECRET)
SignedCorrectly == wreq.signature = Str(ValidSignature(wreq.body, wenv.WEBHOOK_SECRET.s))
BusinessSteps == {wlog[i] : i \in 1..Len(wlog)} \ {"text", "verifySignature"}

\* The signature is checked first: whatever else the handler does comes
\* after the call of verifySignature.
VerifiedFirst ==
    (WebhookPost /\ SecretConfigured /\ BusinessSteps # {}) =>
        (Len(wlog) >= 2 /\ wlog[2] = "verifySignature")

\* A request answered 401 ran no business logic, and a request without the
\* header is answered 401.
RejectedIsInert ==
    (WebhookPost /\ SecretConfigured /\ wres # NoResp /\ wres.status = 401) =>
        BusinessSteps = {}
MissingIs401 ==
    (WebhookPost /\ SecretConfigured /\ ~Truthy(wreq.signature)) =>
        (wres.status = 401 /\ BusinessSteps = {})
SignedIsNot401 ==
    (WebhookPost /\ SecretConfigured /\ SignedCorrectly) =>
        (wres # NoResp => wres.status # 401)

\* C10: with WEBHOOK_SECRET configured, a POST to the webhook surface whose
\* X-Hub-Signature-256 is missing or is anything but the signature of the raw
\* body (a valid one with one hex character changed included) is answered 401
\* and the handler does not parse the payload, enter handlePullRequest or make
\* an outbound request for it; a correctly signed request is not answered 401.
C10_SignatureGate ==
    (WebhookPost /\ SecretConfigured) =>
        IF SignedCorrectly
        THEN wres # NoResp => wres.status # 401
        ELSE BusinessSteps = {} /\ (wres # NoResp => wres.status = 401)

\* C15: every failure in the webhook worker ends in a JSON error response
\* returned by fetch: the handler does not throw to the transport, and no
\* error is answered with a body that is not JSON.
C15_FailuresAreJson ==
    wres # NoResp =>
        /\ "thrown" \notin DOMAIN wres
        /\ wres.status >= 400 => wres.ctype = "application/json"

\* C16: a 500 of the webhook worker carries a generic message only: no text
\* that upstream sent, no message of a network error, nothing of the payload
\* and nothing of the configured key is in the body of the response.
ForeignTexts ==
    UpstreamTexts \cup NetworkErrors \cup WebhookBodies \cup {PemRsaA, PemGarbage}
C16_GenericMessageOnly ==
    (wres # NoResp /\ wres.status = 500 /\ "thrown" \notin DOMAIN wres) =>
        \A i \in 1..Len(wres.body.error) : wres.body.error[i] \notin ForeignTexts

\* C21: without a configured WEBHOOK_SECRET (absent or empty) the handler
\* does not call verifySignature and processes every POST whatever its
\* X-Hub-Signature-256 header, never answering 401; verifySignature is only
\* ever called when a secret is configured.
C21_OpenModeSkipsVerification ==
    WebhookPost =>
        /\ ~SecretConfigured =>
              /\ \A i \in 1..Len(wlog) : wlog[i] # "verifySignature"
              /\ Len(wlog) >= 2 /\ wlog[2] = "JSON.parse"
              /\ wres # NoResp => wres.status # 401
        /\ (\E i \in 1..Len(wlog) : wlog[i] = "verifySignature") => SecretConfigured

\* A POST with a signature header that matches nothing, accepted in a
\* deployment whose secret is the empty string.
C21_Witness ==
    /\ WebhookPost
    /\ wenv.WEBHOOK_SECRET = Str(<<>>)
    /\ wreq.signature = Str(Sha256Prefix)
    /\ wlog = <<"text", "JSON.parse">>
    /\ wres # NoResp /\ wres.status = 202

(***************************************************************************)
(* Properties of the edge discovery worker.                                *)
(***************************************************************************)
\* The TTL the deployment asks for, in seconds: 60 unless configured.
ConfiguredTTL ==
    CASE denv.DISCOVERY_CACHE_TTL = Undefined -> 60
      [] denv.DISCOVERY_CACHE_TTL = Str(<<"1">>) -> 1
      [] OTHER -> 0
FromEdgeCache(res) == res # NoResp /\ res.status = 200 /\ res.body.source = "edge_cache"
FromRegistry(res) == res # NoResp /\ res.status = 200 /\ res.body.source = "azure_registry"
Filter(q) == IF q.skill \in {Null, Str(<<>>)} THEN Undefined ELSE q.skill
KeyOf(q) == IF Filter(q) = Undefined THEN <<"a", "g", "e", "n", "t", "s", ":", "a", "l", "l">>
            ELSE <<"a", "g", "e", "n", "t", "s", ":">> \o q.skill.s
Age(row) == dclock - row.written
Stale(row) == row # NoRow /\ Age(row) >= ConfiguredTTL * TicksPerSecond

C22_WitnessStale ==
    /\ dreq # NoReq /\ dreq.path = "/discover"
    /\ denv.DISCOVERY_CACHE_TTL = Str(<<"1">>)
    /\ dpc = "idle" /\ FromRegistry(dres)
    /\ dcache[KeyOf(dreq)] # NoRow
    /\ dcache[KeyOf(dreq)].written = dclock
    /\ dclock >= TicksPerSecond

(***************************************************************************)
(* Properties of the hub: the order of the checks of POST /mint, and the   *)
(* key cache under failures.                                               *)
(***************************************************************************)
SubjectPresent(b) == CanGet(b.v) /\ Truthy(Get(b.v, "subject"))
AudienceResolvable(b, e) ==
    Truthy(IF CanGet(b.v) THEN Get(b.v, "audience") ELSE Undefined) \/ Truthy(e.ALLOWED_AUDIENCE)

\* The response the first failing check of the list gives; TRUE when only
\* the status is fixed or no check fails.
FirstFailingCheck(x) ==
    IF ~Truthy(env.MINT_API_KEY)
    THEN x.res = ErrorResponse(503, "Service not configured: MINT_API_KEY required")
    ELSE IF ~Admitted(x)
    THEN x.res = ErrorResponse(401, "Unauthorized: Invalid or missing API key")
    ELSE IF KeyFails(x) THEN x.res.status = 500
    ELSE IF ~x.req.body.json
    THEN x.res = ErrorResponse(400, "Invalid request body: Expected JSON")
    ELSE IF ~SubjectPresent(x.req.body)
    THEN x.res = ErrorResponse(400, "Missing required field: subject")
    ELSE IF ~AudienceResolvable(x.req.body, env)
    THEN x.res = ErrorResponse(400, "Missing required field: audience (or set ALLOWED_AUDIENCE)")
    ELSE x.res.status \in {200, 500}

\* C23: POST /mint checks, in this order, that MINT_API_KEY is configured
\* (503), that the Authorization header matches (401), that the signing key
\* and key ID load (500), that the body parses (400), that it has a subject
\* (400) and that an audience can be resolved (400); the response is that
\* of the first check that fails.
C23_FirstFailingCheckWins ==
    (Answered /\ IsMint(resp)) => FirstFailingCheck(resp)

\* The same, for every body but JSON null.
MintOrderForObjectBodies ==
    (Answered /\ IsMint(resp) /\ resp.req.body # Json(Null)) => FirstFailingCheck(resp)

\* C23, the rest: a request rejected with 503 or 401 is answered in the
\* step it arrives in, with nothing read and no key loaded, and a request
\* whose body is read holds the key and the key ID already.
MintOrderOfLoads ==
    [][ \A r \in Slots :
          /\ (task[r].pc = "idle" /\ resp' # resp /\ resp' # NoResp
                /\ IsMint(resp') /\ ~Admitted(resp')) =>
                /\ cachedPrivateKey' = cachedPrivateKey
                /\ cachedKeyId' = cachedKeyId
                /\ resp'.res.status \in {401, 503}
          /\ (task[r].pc = "mint_body" /\ task'[r].pc # "mint_body") =>
                /\ task[r].req.body = NoBody
                /\ Truthy(task[r].privateKey)
                /\ Truthy(task[r].keyId)
      ]_vars

\* A request fails in getPrivateKey or getKeyId in this step.
LoadFails(r) ==
    /\ task[r].pc \in {"key_import", "kid_import", "kid_derive"}
    /\ task'[r].pc = "idle"
    /\ resp' # NoResp /\ resp'.res.status = 500

\* C24: when importing the key or deriving the key ID throws, the cache
\* variable concerned is left as it was, unloaded; a cache variable only
\* ever takes a key that imported or a key ID that was computed; and a
\* request that arrives while the key is unloaded starts the import again.
C24_FailureNeverCached ==
    [][ /\ cachedPrivateKey' # cachedPrivateKey =>
              /\ cachedPrivateKey'.t = "key"
              /\ cachedPrivateKey'.pem = env.PRIVATE_KEY
              /\ env.PRIVATE_KEY # PemGarbage
        /\ cachedKeyId' # cachedKeyId =>
              /\ cachedKeyId'.t = "string"
              /\ cachedKeyId'.s # <<>>
        /\ \A r \in Slots :
              /\ LoadFails(r) =>
                    /\ cachedPrivateKey' = cachedPrivateKey
                    /\ cachedKeyId' = cachedKeyId
                    /\ task[r].pc # "kid_derive" => cachedPrivateKey' = Null
                    /\ task[r].pc = "kid_derive" => cachedKeyId' = Null
              /\ (task[r].pc = "idle" /\ task'[r].pc # "idle" /\ cachedPrivateKey = Null) =>
                    task'[r].pc = "key_import"
      ]_vars

\* An import has failed (its 500 is on the way out) and the next request is
\* importing again.
C24_Witness ==
    /\ env.PRIVATE_KEY = PemGarbage
    /\ resp # NoResp /\ resp.res.status = 500
    /\ \E r \in Slots : task[r].pc = "key_import"
    /\ cachedPrivateKey = Null
    /\ cachedKeyId = Null

\* The derivation of the key ID has failed and left cachedKeyId unloaded,
\* while the key itself is cached.
C24_WitnessDerive ==
    /\ runtime = "webcrypto"
    /\ resp # NoResp /\ resp.res.status = 500 /\ IsMint(resp)
    /\ cachedPrivateKey # Null
    /\ cachedKeyId = Null

\* C25: a /discover response served from the edge cache for a skill filter
\* (or for none) holds the data of an earlier registry query made with the
\* same filter, and a cache update only replaces a row that the same filter
\* wrote: requests with different filters share no row.
C25_FiltersShareNoRow ==
    [][ /\ (dreq = NoReq /\ dreq' # NoReq /\ dreq'.path = "/discover"
              /\ FromEdgeCache(dres')) =>
              \E k \in DOMAIN dcache :
                  /\ dcache[k] # NoRow
                  /\ dcache[k].by = Filter(dreq')
                  /\ dcache[k].data = Json(Arr(dres'.body.agents))
        /\ (dpc = "update" /\ dcache' # dcache) =>
              \A k \in DOMAIN dcache :
                  (dcache'[k] # dcache[k] /\ dcache[k] # NoRow) => dcache[k].by = Filter(dreq)
      ]_vars

\* The claim holds for every pair of filters but the skill 'all' and no
\* filter.
FiltersShareNoRowButAll ==
    [][ /\ (dreq = NoReq /\ dreq' # NoReq /\ dreq'.path = "/discover"
              /\ FromEdgeCache(dres') /\ dreq'.skill = Str(Review)) =>
              dcache[KeyOf(dreq')].by = Str(Review)
        /\ (dpc = "update" /\ dcache' # dcache /\ dreq.skill = Str(Review)) =>
              \A k \in DOMAIN dcache :
                  (dcache'[k] # dcache[k] /\ dcache[k] # NoRow) => dcache[k].by = Str(Review)
        /\ (dpc = "update" /\ dcache' # dcache /\ dreq.skill # Str(Review)) =>
              \A k \in DOMAIN dcache :
                  (dcache'[k] # dcache[k] /\ dcache[k] # NoRow) => dcache[k].by # Str(Review)
      ]_vars

\* C26: a failure of the edge cache never fails a /discover request.  The
\* cache lookup ends in an answer from the cache or in the registry query,
\* and in the query whenever D1 is not configured; the cache update leaves
\* the response as it was chosen, whatever D1 does; and an error response
\* to /discover is the 504 of a registry query that failed.
C26_CacheFailureNeverFails ==
    [][ /\ (dreq = NoReq /\ dreq' # NoReq /\ dreq'.path = "/discover") =>
              /\ FromEdgeCache(dres') \/ (dres' = NoResp /\ dpc' = "registry")
              /\ ~denv.EDGE_CACHE => dpc' = "registry"
        /\ (dpc = "update" /\ dpc' # dpc) =>
              /\ dres' = dres
              /\ FromRegistry(dres')
              /\ dpc' = "idle"
        /\ (dres' # dres /\ dres' # NoResp /\ dreq'.path = "/discover"
              /\ dres'.status # 200) =>
              /\ dpc = "registry"
              /\ dres'.status = 504
              /\ dres'.body.message \in RegistryErrors
      ]_vars

\* D1 has a fresh row with agents for the request, written this very tick,
\* and the request is at the registry all the same: the read failed.
C26_Witness ==
    /\ dpc = "registry"
    /\ denv.EDGE_CACHE /\ denv.DISCOVERY_CACHE_TTL = Undefined
    /\ dcache[KeyOf(dreq)] # NoRow
    /\ dcache[KeyOf(dreq)].written = dclock
    /\ dcache[KeyOf(dreq)].data.v.a # <<>>

\* The update is over, D1 is configured and the row is still missing: the
\* write failed, and the response stands.
C26_WitnessWrite ==
    /\ dpc = "idle" /\ dreq # NoReq /\ dreq.path = "/discover"
    /\ denv.EDGE_CACHE
    /\ FromRegistry(dres) /\ dres.body.agents # <<>>
    /\ dcache[KeyOf(dreq)] = NoRow

\* D1 is not configured and the registry has answered.
C26_WitnessUnconfigured ==
    /\ dreq # NoReq /\ dreq.path = "/discover"
    /\ ~denv.EDGE_CACHE
    /\ FromRegistry(dres)

(***************************************************************************)
(* Properties of handlePullRequest.                                        *)
(***************************************************************************)
OutboundCalls == <<"fetch access_tokens", "fetch diff", "fetch agent", "fetch comment">>
Settlements == {"ok", "unreadable", "not_ok", "rejected"}
IsCall(e) == \E i \in 1..4 : OutboundCalls[i] = e
\* What wlog holds of the outbound calls and of how they came back.
Traffic == SelectSeq(wlog, LAMBDA e : IsCall(e) \/ e \in Settlements)
\* The i-th entry of the traffic is a call that came back with success: the
\* comment needs no readable body, the other three do.
Succeeded(i) ==
    \/ Traffic[i + 1] = "ok"
    \/ Traffic[i + 1] = "unreadable" /\ Traffic[i] = "fetch comment"
ReviewablePayloads == {BodyTexts[5], BodyTexts[6]}

\* C27: for a pull_request event the outbound calls are the token exchange,
\* the diff fetch, the agent call and the comment post, in this order, each
\* made right after the one before came back with success; the comment is
\* posted at most once, and only for an 'opened' or 'synchronize' payload
\* with PR number, repository and installation ID; a call that fails is the
\* last thing the handler does and the response is 500.
C27_OutboundCallsInOrder ==
    /\ Len(Traffic) <= 8
    /\ \A i \in 1..Len(Traffic) :
          /\ i % 2 = 1 => Traffic[i] = OutboundCalls[(i + 1) \div 2]
          /\ i % 2 = 0 => Traffic[i] \in Settlements
          /\ (i % 2 = 1 /\ i > 1) => Succeeded(i - 2)
          /\ (i % 2 = 0 /\ ~Succeeded(i - 1)) =>
                /\ i = Len(Traffic)
                /\ wlog[Len(wlog)] = Traffic[i]
                /\ wpc = "done"
                /\ wres.status = 500
    /\ Cardinality({i \in 1..Len(wlog) : wlog[i] = "fetch comment"}) <= 1
    /\ Traffic # <<>> =>
          /\ wreq.event = Str(<<"pull_request">>)
          /\ wreq.body \in ReviewablePayloads
    /\ (wpc = "done" /\ Traffic # <<>> /\ wres.status # 500) =>
          /\ Len(Traffic) = 8
          /\ wres = JsonResponse(200, [status |-> "success", message |-> "Review posted."])

\* The agent call has failed after the token exchange and the diff fetch:
\* 500, and no comment.
C27_Witness ==
    /\ wpc = "done"
    /\ Traffic = <<"fetch access_tokens", "ok", "fetch diff", "ok", "fetch agent", "not_ok">>
    /\ wres.status = 500

\* All four calls have been made and the review is reported posted.
C27_WitnessPosted ==
    /\ wpc = "done"
    /\ Len(Traffic) = 8
    /\ wres.status = 200

(***************************************************************************)
(* Properties of the audit worker.                                         *)
(***************************************************************************)
AuditAnswered == areq # NoReq /\ areq.method # "OPTIONS"
TokenConfigured == aenv.WORKER_TOKEN.t = "string" /\ aenv.WORKER_TOKEN.s # <<>>
\* The header the worker receives is 'Bearer ' followed by something.
IsBearer(raw) ==
    /\ raw # Null
    /\ LET h == TrimEnd(TrimStart(raw.s))
       IN  Len(h) >= 7 /\ SubSeq(h, 1, 7) = <<"B", "e", "a", "r", "e", "r", " ">>
BearerToken(raw) == LET h == TrimEnd(TrimStart(raw.s)) IN SubSeq(h, 8, Len(h))

\* C28: in the audit worker every request but OPTIONS is authenticated
\* before it is routed: without a header that is 'Bearer ' and a token the
\* answer is 401, with a token that is not WORKER_TOKEN it is 403, with no
\* WORKER_TOKEN configured it is one of the two for every request, and
\* an event is processed, or a 200, 404 or 500 given, only for a request
\* whose token is WORKER_TOKEN.
C28_AuthPrecedesRouting ==
    AuditAnswered =>
        /\ ~IsBearer(areq.auth) => ares.status = 401 /\ alog = <<>>
        /\ (IsBearer(areq.auth) /\ Str(BearerToken(areq.auth)) # aenv.WORKER_TOKEN) =>
              ares.status = 403 /\ alog = <<>>
        /\ ~TokenConfigured => ares.status \in {401, 403} /\ alog = <<>>
        /\ (ares.status \notin {401, 403} \/ alog # <<>>) =>
              /\ TokenConfigured
              /\ IsBearer(areq.auth)
              /\ BearerToken(areq.auth) = aenv.WORKER_TOKEN.s

\* No WORKER_TOKEN, and a deployment event with a Bearer token is refused.
C28_Witness ==
    /\ AuditAnswered
    /\ aenv.WORKER_TOKEN = Undefined
    /\ areq.path = "/deploy-event" /\ areq.method = "POST"
    /\ areq.auth = Str(Bearer \o KeyGood)
    /\ ares.status = 403

\* An event is processed for the token of the deployment.
C28_WitnessProcessed ==
    /\ AuditAnswered
    /\ aenv.WORKER_TOKEN = Str(KeyGood)
    /\ alog = <<"request.json", "processDeploymentEvent">>
    /\ ares.status = 200

(***************************************************************************)
(* Properties of the Vectorize and RAG routes.                             *)
(***************************************************************************)
ApiPost == rreq # NoReq /\ rreq.method = "POST" /\ rreq.path \in {PathTrigger, PathSearch}
ApiTokenConfigured ==
    renv.VECTORIZE_API_TOKEN.t = "string" /\ renv.VECTORIZE_API_TOKEN.s # <<>>
Ran == {rlog[i] : i \in 1..Len(rlog)}

\* C29: on /api/vectorize/trigger and /api/rag/search, without a header
\* that is 'Bearer ' and a token the answer is 401; with a token that is not
\* the configured VECTORIZE_API_TOKEN it is 403; in both cases nothing is
\* read, rebuilt or searched.  The rebuild or the search runs only for a
\* Bearer token that is the configured one or when none is configured, and
\* with none configured no Bearer token is refused.
C29_BearerGateOfApiRoutes ==
    ApiPost =>
        /\ ~IsBearer(rreq.auth) => rres # NoResp /\ rres.status = 401 /\ rlog = <<>>
        /\ (IsBearer(rreq.auth) /\ ApiTokenConfigured
              /\ BearerToken(rreq.auth) # renv.VECTORIZE_API_TOKEN.s) =>
              rres # NoResp /\ rres.status = 403 /\ rlog = <<>>
        /\ rlog # <<>> =>
              /\ IsBearer(rreq.auth)
              /\ ApiTokenConfigured => BearerToken(rreq.auth) = renv.VECTORIZE_API_TOKEN.s
        /\ (IsBearer(rreq.auth) /\ ~ApiTokenConfigured) =>
              /\ rlog # <<>>
              /\ rres # NoResp => rres.status \notin {401, 403}

\* No token is configured and the index was rebuilt for a caller with some
\* Bearer token.
C29_Witness ==
    /\ ApiPost /\ rreq.path = PathTrigger
    /\ renv.VECTORIZE_API_TOKEN = Undefined
    /\ rreq.auth = Str(Bearer \o KeyWrong)
    /\ "indexAllDocuments" \in Ran
    /\ rres # NoResp /\ rres.status = 200

\* A token is configured and a search with another token is refused.
C29_WitnessRefused ==
    /\ ApiPost /\ rreq.path = PathSearch
    /\ renv.VECTORIZE_API_TOKEN = Str(KeyGood)
    /\ rreq.auth = Str(Bearer \o KeyWrong)
    /\ rres # NoResp /\ rres.status = 403

(***************************************************************************)
(* Properties of chunkText.                                                *)
(***************************************************************************)
ChunkDone == cpc = "done"
\* The windows of a text of the given length: one every 3600 characters,
\* until one reaches the end of the text.
WindowCount(length) ==
    IF length = 0 THEN 0
    ELSE IF length <= 4000 THEN 1
    ELSE 1 + ((length - 4000 + 3599) \div 3600)

\* C30: chunkText terminates for every text: from one iteration to the next
\* the window moves on by 3600 characters, the chunk size less the overlap,
\* and stays before the end of the text.  The chunks returned have the
\* chunkIndex values 0..n-1 in order, the ids '<source>-chunk-<index>', all
\* different, and totalChunks = n, whether or not windows were skipped.
C30_ChunkTextTerminatesAndNumbers ==
    /\ [](ChunkDone =>
            /\ \A i \in 1..Len(cchunks) :
                  /\ cchunks[i].metadata.chunkIndex = i - 1
                  /\ cchunks[i].metadata.totalChunks = Len(cchunks)
                  /\ cchunks[i].metadata.source = csource
                  /\ cchunks[i].id = csource \o <<"-", "c", "h", "u", "n", "k", "-">>
                                            \o ToDecimal(i - 1)
            /\ \A i, j \in 1..Len(cchunks) : i # j => cchunks[i].id # cchunks[j].id
            /\ Len(cchunks) <= WindowCount(TextLength(ctext)))
    /\ [][(cpc = "loop" /\ cpc' = "loop") =>
            /\ position' = position + 3600
            /\ position' > position
            /\ position' < TextLength(ctext)]_vars
    /\ <>ChunkDone

\* A window of whitespace between two windows with text has been skipped,
\* and the two chunks are numbered 0 and 1 of 2.
C30_Witness ==
    /\ ChunkDone
    /\ ctext = <<[ws |-> FALSE, len |-> 3600], [ws |-> TRUE, len |-> 4000],
                 [ws |-> FALSE, len |-> 1]>>
    /\ WindowCount(TextLength(ctext)) = 3
    /\ Len(cchunks) = 2
    /\ cchunks[2].metadata.chunkIndex = 1
    /\ cchunks[2].metadata.totalChunks = 2

====
